---- MODULE Spec2Model ----
(***************************************************************************)
(* Smart Volume Radar (KobiHaz/StockMarketBot).                            *)
(*                                                                         *)
(* Several state machines share this module:                               *)
(*   SpecRank    - services/rvolCalculator.ts: calculateRVOL               *)
(*   SpecFetch   - services/marketData.ts: fetchAllStocks under pLimit(3), *)
(*                 with the Yahoo Chart and Twelve Data adapters           *)
(*   SpecSetup   - utils/setup.ts and formatSetupIndicator: the setup      *)
(*                 classification of one record                            *)
(*   SpecConfig  - config/index.ts: the watchlist cache                    *)
(*   SpecMain    - index.ts: main() up to the report                       *)
(*   SpecInd     - utils/technicalAnalysis.ts: calculateSMA, calculateRSI, *)
(*                 calculate52wHighAndConsolidation                        *)
(*   SpecReport  - calculateRVOL followed by formatDailyReport             *)
(*   SpecRetry   - utils/errorHandler.ts: withRetry                        *)
(*   SpecSend    - services/telegramBot.ts: sendDailyReport, with          *)
(*                 chunkMessage and the LLM summary                        *)
(* SpecFetchFair is SpecFetch with the fairness of the runtime.            *)
(* Each leaves the others' variables at their initial values.              *)
(*                                                                         *)
(* Numbers.  rvol and priceChange of the ranking are fixed-point integers  *)
(* (tenths and whole percent).  The adapters compute with quotients, so    *)
(* their numbers are pairs <<n, d>> with d >= 0: d = 0 is the IEEE result  *)
(* of a division by zero, <<0, 0>> is NaN and <<n, 0>>, n > 0, is Infinity.*)
(***************************************************************************)
EXTENDS Integers, Sequences, FiniteSets, TLC

VARIABLES
    \* ---- calculateRVOL ----
    stocks,             \* the StockData[] passed in
    rvolConfig,         \* the RVOLConfig passed in
    rankPc,             \* "input" | "done"
    highRVOL,           \* the local array after filter and sort
    topSignals,         \* result.topSignals
    volumeWithoutPrice, \* result.volumeWithoutPrice
    \* ---- fetchAllStocks ----
    tickers,            \* the symbols passed in
    twelveKey,          \* process.env.TWELVE_DATA_API_KEY is set
    fetchPc,            \* "idle" | "running" | "resolved" | "rejected"
    queue,              \* p-limit: the tasks waiting, oldest first
    activeCount,        \* p-limit: the tasks started and not finished
    microtasks,         \* p-limit: enqueue() continuations not yet run
    taskPc,             \* per task: "queued" | "yahoo" | "twelve" | "done" | "rejected"
    calls,              \* per task: the adapter calls made, with how each ended
    yahooOut,           \* per task: what fetchFromYahooChart resolved with
    twelveOut,          \* per task: what fetchFromTwelveData resolved with
    taskResult,         \* per task: the value the task's promise resolved with
    results,            \* the StockData[] fetchAllStocks resolves with
    failedTickers,      \* the symbols reported as failed
    \* ---- setup classification of one record ----
    setupStock,         \* the StockData looked at
    setupPc,            \* "idle" | "flagged" | "measured" | "enriched" | "classified" | "reported" | "prompted"
    setupStatus,        \* what getSetupStatus returned
    setupLines,         \* what formatSetupIndicator returned
    setupEmoji,         \* the emoji formatDailyReport puts on the Setup row
    llmLines,           \* the marks formatStockForLlm wrote in the row for the LLM
    \* ---- config/index.ts: the watchlist ----
    googleSheetId,      \* config.googleSheetId.trim() is not empty
    tickerCache,        \* the module's tickerCache: CacheNull or a TickerConfig[]
    cfgInFlight,        \* fetchAndCacheWatchlist calls awaiting the sheet
    cfgLog,             \* the calls that have completed, oldest first
    \* ---- index.ts: main ----
    mainEnv,            \* the environment the run was started in
    mainPc,             \* where main() is
    mainWarned,         \* validateConfig threw and main logged the warning
    mainFetchArgs,      \* <<>>, or <<tickers>> once fetchAllStocks(tickers) was called
    \* ---- utils/technicalAnalysis.ts ----
    indPrices,          \* the series passed in
    indPeriods,         \* the window passed in
    indPc,              \* "idle" | the function to call | "done"
    indResult,          \* what the functions returned
    \* ---- services/telegramBot.ts: formatDailyReport ----
    silentItems,        \* the records listed under SILENT ACTIVITY WATCHLIST
    \* ---- utils/errorHandler.ts: withRetry ----
    retryArgs,          \* maxRetries and baseDelayMs of the call
    retryPc,            \* "idle" | "loop" | "calling" | "sleeping" | "resolved" | "rejected"
    attempt,            \* the loop variable
    lastError,          \* the local lastError
    retryTrace,         \* the calls of fn, how each settled, and the sleeps
    retryOutcome,       \* the value withRetry resolved or rejected with
    \* ---- services/telegramBot.ts: sendDailyReport ----
    sendIn,             \* the report text (its lines), the counts and the LLM settings
    sendPc,             \* "idle" | "start" | "llm" | "sendLlm" | "chunks" | "done" | "rejected"
    sendChunks,         \* const chunks = chunkMessage(report)
    sendSummary,        \* the local summary
    sendI,              \* the loop variable i, counted from 1
    sentMessages        \* the messages passed to sendTelegramMessage, in order

setupVars == <<setupStock, setupPc, setupStatus, setupLines, setupEmoji, llmLines>>

rankVars == <<stocks, rvolConfig, rankPc, highRVOL, topSignals, volumeWithoutPrice>>

fetchVars == <<tickers, twelveKey, fetchPc, queue, activeCount, microtasks, taskPc,
               calls, yahooOut, twelveOut, taskResult, results, failedTickers>>

\* The variables of the machines other than the ranking and the acquisition.
cfgVars == <<googleSheetId, tickerCache, cfgInFlight, cfgLog>>

mainVars == <<mainEnv, mainPc, mainWarned, mainFetchArgs>>

indVars == <<indPrices, indPeriods, indPc, indResult>>

reportVars == <<silentItems>>

retryVars == <<retryArgs, retryPc, attempt, lastError, retryTrace, retryOutcome>>

\* The variables of the machines added last.
sendVars == <<sendIn, sendPc, sendChunks, sendSummary, sendI, sentMessages>>
moreVars == <<retryVars, sendVars>>

restVars == <<setupVars, cfgVars, mainVars, indVars, reportVars, moreVars>>

\* What each of these machines leaves alone.
notSetupVars == <<rankVars, fetchVars, cfgVars, mainVars, indVars, reportVars, moreVars>>
notCfgVars == <<rankVars, fetchVars, setupVars, mainVars, indVars, reportVars, moreVars>>
notMainVars == <<rankVars, fetchVars, setupVars, indVars, reportVars, moreVars>>
notIndVars == <<rankVars, fetchVars, setupVars, cfgVars, mainVars, reportVars, moreVars>>
notReportVars == <<fetchVars, setupVars, cfgVars, mainVars, indVars, moreVars>>
coreVars == <<rankVars, fetchVars, setupVars, cfgVars, mainVars, indVars, reportVars>>
notRetryVars == <<coreVars, sendVars>>
notSendVars == <<coreVars, retryVars>>

vars == <<rankVars, fetchVars, restVars>>

Min(a, b) == IF a <= b THEN a ELSE b
Max(a, b) == IF a >= b THEN a ELSE b
Abs(x) == IF x < 0 THEN -x ELSE x

(***************************************************************************)
(* utils/setup.ts                                                          *)
(***************************************************************************)
\* An optional boolean field of StockData: true, false or left out.
FlagVals == {"true", "false", "undefined"}

\* JavaScript truthiness of an optional boolean.
Truthy(f) == f = "true"

isFullSetup(s) ==
    Truthy(s.nearSMA21) /\ Truthy(s.nearAth) /\ Truthy(s.inConsolidationWindow)

isCloseSetup(s) ==
    LET smaOk  == Truthy(s.nearSMA21) \/ Truthy(s.nearSMA21Close)
        athOk  == Truthy(s.nearAth) \/ Truthy(s.nearAthClose)
        baseOk == Truthy(s.inConsolidationWindow) \/ Truthy(s.inConsolidationClose)
    IN  smaOk /\ athOk /\ baseOk

(***************************************************************************)
(* services/rvolCalculator.ts                                              *)
(***************************************************************************)
\* The dominance gap of the comparator, 0.5, in tenths.
RvolGap == 5

\* isFullSetup(x) ? 2 : isCloseSetup(x) ? 1 : 0
Boost(s) == IF isFullSetup(s) THEN 2 ELSE IF isCloseSetup(s) THEN 1 ELSE 0

\* The comparator handed to highRVOL.sort: negative puts a first.
CompareMutantTierReversed(a, b) ==
    LET rvolDiff == b.rvol - a.rvol IN
    IF Abs(rvolDiff) >= RvolGap
    THEN (IF rvolDiff > 0 THEN 1 ELSE -1)
    ELSE IF Boost(a) - Boost(b) # 0 THEN Boost(a) - Boost(b) ELSE rvolDiff

Compare(a, b) ==
    LET rvolDiff == b.rvol - a.rvol IN
    IF Abs(rvolDiff) >= RvolGap
    THEN (IF rvolDiff > 0 THEN 1 ELSE -1)
    ELSE IF Boost(b) - Boost(a) # 0 THEN Boost(b) - Boost(a) ELSE rvolDiff

(***************************************************************************)
(* Array.prototype.sort as Node 20 (V8) runs it on an array shorter than   *)
(* 64 elements: one natural run is found at the front (reversed when it is *)
(* strictly descending) and the rest is added by binary insertion.  The    *)
(* comparator above is not transitive, so the order is the one this        *)
(* algorithm produces, not "the" sorted order.                             *)
(***************************************************************************)
Reverse(w) == [i \in 1..Len(w) |-> w[Len(w) + 1 - i]]

\* CountAndMakeRun's loop: idx is the element looked at, the run is w[1..idx-1].
RECURSIVE RunLength(_, _, _)
RunLength(w, idx, desc) ==
    IF idx > Len(w) THEN Len(w)
    ELSE LET order == Compare(w[idx], w[idx - 1]) IN
         IF (desc /\ order >= 0) \/ (~desc /\ order < 0)
         THEN idx - 1
         ELSE RunLength(w, idx + 1, desc)

\* BinaryInsertionSort's search: the slot (0-based) of pivot in w[1..right].
RECURSIVE InsertionPoint(_, _, _, _)
InsertionPoint(w, pivot, left, right) ==
    IF left >= right THEN left
    ELSE LET mid == left + ((right - left) \div 2) IN
         IF Compare(pivot, w[mid + 1]) < 0
         THEN InsertionPoint(w, pivot, left, mid)
         ELSE InsertionPoint(w, pivot, mid + 1, right)

\* BinaryInsertionSort: w[1..start] is sorted, the elements after it are added.
RECURSIVE BinaryInsertionSort(_, _)
BinaryInsertionSort(w, start) ==
    IF start >= Len(w) THEN w
    ELSE LET pivot == w[start + 1]
             left  == InsertionPoint(w, pivot, 0, start)
             moved == SubSeq(w, 1, left) \o <<pivot>> \o SubSeq(w, left + 1, start)
                      \o SubSeq(w, start + 2, Len(w))
         IN  BinaryInsertionSort(moved, start + 1)

ArraySort(w) ==
    IF Len(w) < 2 THEN w
    ELSE LET desc == Compare(w[2], w[1]) < 0
             run  == RunLength(w, 3, desc)
             made == IF desc
                     THEN Reverse(SubSeq(w, 1, run)) \o SubSeq(w, run + 1, Len(w))
                     ELSE w
         IN  BinaryInsertionSort(made, run)

SliceFromStartMutantFromEnd(w, end) ==
    LET k == IF end < 0 THEN Max(Len(w) + end, 0) ELSE Min(end, Len(w)) IN
    SubSeq(w, Len(w) - k + 1, Len(w))

\* Array.prototype.slice(0, end)
SliceFromStart(w, end) ==
    LET k == IF end < 0 THEN Max(Len(w) + end, 0) ELSE Min(end, Len(w)) IN
    SubSeq(w, 1, k)

FilterHighRVOLMutantNoFilter(ss, minRVOL) == ss

\* stocks.filter((s) => s.rvol >= minRVOL)
FilterHighRVOL(ss, minRVOL) == SelectSeq(ss, LAMBDA s : s.rvol >= minRVOL)

FilterVolumeWithoutPriceMutantNoAbs(ss, threshold) ==
    SelectSeq(ss, LAMBDA s : s.priceChange < threshold)

\* highRVOL.filter((s) => Math.abs(s.priceChange) < priceChangeThreshold)
FilterVolumeWithoutPrice(ss, threshold) ==
    SelectSeq(ss, LAMBDA s : Abs(s.priceChange) < threshold)

(***************************************************************************)
(* Inputs of calculateRVOL                                                 *)
(***************************************************************************)
MaxStocks == 3
MaxTopN == 3

\* rvol in tenths.  Below the threshold:
RvolBelow == {15}
\* On the threshold, and two values above it that are less than 0.5 from
\* their neighbour and 0.5 from the lowest.
RvolVals == {20, 23, 25}
\* priceChange in percent
PriceChangeVals == {-3, 1}

NoFlags ==
    [nearSMA21 |-> "undefined", nearAth |-> "undefined",
     inConsolidationWindow |-> "undefined", nearSMA21Close |-> "undefined",
     nearAthClose |-> "undefined", inConsolidationClose |-> "undefined"]

\* One set of flags for each setup tier: full, close, none.
SetupChoices ==
    { [NoFlags EXCEPT !.nearSMA21 = "true", !.nearAth = "true",
                      !.inConsolidationWindow = "true"],
      [NoFlags EXCEPT !.nearSMA21 = "false", !.nearSMA21Close = "true",
                      !.nearAth = "true", !.inConsolidationWindow = "true"],
      [NoFlags EXCEPT !.nearSMA21 = "false", !.nearSMA21Close = "false",
                      !.nearAth = "true", !.inConsolidationWindow = "true"] }

StockData(t, r, p, f) ==
    [ticker |-> t, rvol |-> r, priceChange |-> p,
     nearSMA21 |-> f.nearSMA21, nearAth |-> f.nearAth,
     inConsolidationWindow |-> f.inConsolidationWindow,
     nearSMA21Close |-> f.nearSMA21Close, nearAthClose |-> f.nearAthClose,
     inConsolidationClose |-> f.inConsolidationClose]

\* The records a stock is drawn from.  A record below the threshold is
\* dropped before the sort reads its flags, so it comes with one set of flags.
StockChoices ==
    (RvolVals \X PriceChangeVals \X SetupChoices)
    \cup (RvolBelow \X PriceChangeVals \X {NoFlags})

\* Every list of n stocks; the ticker of the i-th is i (the watchlist holds
\* each symbol once).
StockLists(n) ==
    { [i \in 1..n |-> StockData(i, c[i][1], c[i][2], c[i][3])] :
        c \in [1..n -> StockChoices] }

(***************************************************************************)
(* JavaScript numbers of the adapters: <<n, d>> stands for n / d.          *)
(***************************************************************************)
NaN == <<0, 0>>
Zero == <<0, 1>>
One == <<1, 1>>
Num(n) == <<n, 1>>

IsNaN(q) == q[2] = 0 /\ q[1] = 0
IsFinite(q) == q[2] # 0
IsZero(q) == q[2] # 0 /\ q[1] = 0
\* a / b; a division by zero gives Infinity or NaN as IEEE 754 does.
Div(a, b) == <<a[1] * b[2], a[2] * b[1]>>
Minus(a, b) == IF a[2] = 0 \/ b[2] = 0 THEN NaN
               ELSE <<a[1] * b[2] - b[1] * a[2], a[2] * b[2]>>
Times(a, b) == <<a[1] * b[1], a[2] * b[2]>>
\* a === b for numbers that are not NaN
NumEq(a, b) == /\ ~IsNaN(a) /\ ~IsNaN(b)
               /\ (a[2] = 0) = (b[2] = 0)
               /\ a[1] * b[2] = b[1] * a[2]
\* a || b: a unless it is 0 or NaN
OrElse(a, b) == IF IsNaN(a) \/ IsZero(a) THEN b ELSE a

\* A field of a JSON body that is null or missing.
JsNull == -1
\* parseFloat of a field: a decimal string gives its value, a missing field NaN.
ParseFloat(raw) == IF raw = JsNull THEN NaN ELSE Num(raw)

RECURSIVE SumSeq(_)
SumSeq(w) == IF w = <<>> THEN 0 ELSE Head(w) + SumSeq(Tail(w))

(***************************************************************************)
(* services/marketData.ts: the adapters.  An adapter is a function of the  *)
(* provider's response; it completes by returning a value or by throwing.  *)
(***************************************************************************)
Null == [kind |-> "null"]
Return(v) == [completion |-> "return", value |-> v]
Throw == [completion |-> "throw", value |-> Null]

Record(t, src, cur, avg, r, pc, lp) ==
    [kind |-> "record", ticker |-> t, source |-> src, currentVolume |-> cur,
     avgVolume |-> avg, rvol |-> r, priceChange |-> pc, lastPrice |-> lp]

\* response.ok
HttpOk(status) == status >= 200 /\ status <= 299

\* The body of fetchFromYahooChart's try block.
YahooChartBody(ticker, r) ==
    IF r.type = "network-error" THEN Throw
    ELSE IF ~HttpOk(r.status) THEN Return(Null)
    ELSE IF r.type = "bad-json" THEN Throw
    ELSE IF ~r.hasResult THEN Return(Null)
    ELSE IF ~r.hasQuote \/ Len(r.volume) = 0 THEN Return(Null)
    ELSE
    LET volumes == SelectSeq(r.volume, LAMBDA v : v # JsNull /\ v > 0)
        closes  == SelectSeq(r.close, LAMBDA c : c # JsNull /\ c > 0)
    IN  IF Len(volumes) < 5 \/ Len(closes) < 2 THEN Return(Null)
        ELSE
        LET currentVolume == OrElse(Num(volumes[Len(volumes)]), Zero)
            historical    == SubSeq(volumes, 1, Len(volumes) - 1)
            avgVolume     == Div(Num(SumSeq(historical)), Num(Len(historical)))
        IN  IF IsZero(avgVolume) THEN Return(Null)
            ELSE
            LET rvol          == Div(currentVolume, avgVolume)
                currentClose  == Num(closes[Len(closes)])
                previousClose == Num(closes[Len(closes) - 1])
                priceChange   ==
                    IF previousClose[1] > 0
                    THEN Times(Div(Minus(currentClose, previousClose), previousClose),
                               Num(100))
                    ELSE Zero
            IN  IF ~r.hasMeta THEN Throw
                ELSE Return(Record(ticker, "Yahoo Chart", currentVolume, avgVolume,
                                   rvol, priceChange,
                                   OrElse(ParseFloat(r.metaPrice),
                                          OrElse(currentClose, Zero))))

fetchFromYahooChartMutantNoCatch(ticker, r) == YahooChartBody(ticker, r)

\* fetchFromYahooChart: the catch turns every throw into null.
fetchFromYahooChart(ticker, r) ==
    LET c == YahooChartBody(ticker, r) IN
    IF c.completion = "throw" THEN Return(Null) ELSE c

\* The body of fetchFromTwelveData's try block.
TwelveDataBody(ticker, r) ==
    IF r.type = "network-error" THEN Throw
    ELSE IF r.type = "bad-json" THEN Throw
    ELSE IF r.status = "error" \/ r.close = JsNull THEN Return(Null)
    ELSE Return(Record(ticker, "Twelve Data",
                       OrElse(ParseFloat(r.volume), Zero),
                       OrElse(ParseFloat(r.average_volume),
                              OrElse(ParseFloat(r.volume), One)),
                       Div(ParseFloat(r.volume),
                           OrElse(ParseFloat(r.average_volume), One)),
                       OrElse(ParseFloat(r.percent_change), Zero),
                       OrElse(ParseFloat(r.close), Zero)))

\* fetchFromTwelveData: null without a key, and the catch as above.
fetchFromTwelveData(ticker, apiKey, r) ==
    IF ~apiKey THEN Return(Null)
    ELSE LET c == TwelveDataBody(ticker, r) IN
         IF c.completion = "throw" THEN Return(Null) ELSE c

(***************************************************************************)
(* Provider responses                                                      *)
(***************************************************************************)
YahooResponse(type, status, hasResult, hasQuote, hasMeta, volume, close, metaPrice) ==
    [type |-> type, status |-> status, hasResult |-> hasResult, hasQuote |-> hasQuote,
     hasMeta |-> hasMeta, volume |-> volume, close |-> close, metaPrice |-> metaPrice]

\* What the Yahoo chart endpoint can answer: no connection, a rate limit, an
\* unknown symbol, a body that is not JSON, a chart without result, a history
\* that is too short, a result without meta, and a usable year of history
\* (with a null and a zero among the volumes).
YahooResponses ==
    { YahooResponse("network-error", 0, FALSE, FALSE, FALSE, <<>>, <<>>, JsNull),
      YahooResponse("json", 429, FALSE, FALSE, FALSE, <<>>, <<>>, JsNull),
      YahooResponse("json", 404, FALSE, FALSE, FALSE, <<>>, <<>>, JsNull),
      YahooResponse("bad-json", 200, FALSE, FALSE, FALSE, <<>>, <<>>, JsNull),
      YahooResponse("json", 200, FALSE, FALSE, FALSE, <<>>, <<>>, JsNull),
      YahooResponse("json", 200, TRUE, TRUE, TRUE, <<3, 3, 9>>, <<10, 11>>, 11),
      YahooResponse("json", 200, TRUE, TRUE, FALSE,
                    <<2, 2, 2, 2, 6>>, <<10, 11>>, JsNull),
      YahooResponse("json", 200, TRUE, TRUE, TRUE,
                    <<2, JsNull, 2, 0, 2, 2, 6>>, <<JsNull, 10, 11>>, 11) }

TwelveResponse(type, status, code, close, volume, average_volume, percent_change) ==
    [type |-> type, status |-> status, code |-> code, close |-> close,
     volume |-> volume, average_volume |-> average_volume,
     percent_change |-> percent_change]

\* What the Twelve Data quote endpoint can answer: no connection, a rate
\* limit, an unknown symbol, a full quote, and a quote of an instrument that
\* reports neither volume nor average volume.
TwelveResponses ==
    { TwelveResponse("network-error", "none", 0, JsNull, JsNull, JsNull, JsNull),
      TwelveResponse("json", "error", 429, JsNull, JsNull, JsNull, JsNull),
      TwelveResponse("json", "error", 404, JsNull, JsNull, JsNull, JsNull),
      TwelveResponse("json", "ok", 200, 10, 500, 100, 2),
      TwelveResponse("json", "ok", 200, 10, JsNull, JsNull, 2) }

\* A failure that a later attempt may not meet again: no connection, or the
\* provider's rate limit.
YahooTransient(r) == r.type = "network-error" \/ r.status = 429
TwelveTransient(r) == r.type = "network-error" \/ r.code = 429

\* How a call ended, for the call log: with a record, with a transient
\* failure, or with an answer that holds no usable data.
EndedAs(out, transient) ==
    IF out.kind = "record" THEN "ok"
    ELSE IF transient THEN "transient" ELSE "nodata"

(***************************************************************************)
(* services/marketData.ts: fetchAllStocks                                  *)
(***************************************************************************)
MaxTickers == 4

\* pLimit(3)
ConcurrencyLimit == 3

\* config.maxRetries
MaxRetries == 3

PLimitCanStartMutantOffByOne(active) == active <= ConcurrencyLimit

\* p-limit starts a queued task while fewer than the limit are active.
PLimitCanStart(active) == active < ConcurrencyLimit

NeedsFallbackMutantAlways(result) == TRUE

\* if (!result): the second adapter is tried only without a first result.
NeedsFallback(result) == result.kind = "null"

Tasks == 1..Len(tickers)

CollectResultsMutantPrimaryOnly(fetchResults) ==
    SelectSeq(fetchResults, LAMBDA res : res.kind # "null" /\ res.source = "Yahoo Chart")

\* fetchResults.forEach(res => { if (res) results.push(res); })
CollectResults(fetchResults) == SelectSeq(fetchResults, LAMBDA res : res.kind # "null")

\* The symbols whose task resolved with no record, in watchlist order.
FailedTickers(tks, fetchResults) ==
    LET idx == SelectSeq([i \in 1..Len(tks) |-> i],
                         LAMBDA i : fetchResults[i].kind = "null")
    IN  [k \in 1..Len(idx) |-> tks[idx[k]]]

(***************************************************************************)
(* The setup dimensions of a record: utils/setup.ts getSetupStatus,        *)
(* utils/technicalAnalysis.ts isNearSMA, the flag formulas of              *)
(* CALCULATIONS.md sections 8-13 and telegramBot.ts formatSetupIndicator.  *)
(* An optional number is <<>> when absent and <<v>> when present.  Prices  *)
(* and percentages are whole numbers; monthsInConsolidation is kept as its *)
(* number of trading days, months = days / 21.                             *)
(***************************************************************************)
Absent == <<>>
Some(v) == <<v>>

\* config: the thresholds of the three dimensions (defaults)
consolidationMinMonths == 6
consolidationMaxMonths == 36
consolidationCloseMinMonths == 4
athThresholdPct == 20
athCloseThresholdPct == 25
sma21TouchThresholdPct == 3
sma21CloseThresholdPct == 5

\* ~21 trading days per month
TRADING_DAYS_PER_MONTH == 21

getSetupStatusMutantCloseFirst(s) ==
    IF isCloseSetup(s) THEN "close" ELSE IF isFullSetup(s) THEN "full" ELSE "none"

\* getSetupStatus: "full" is the emoji of a full setup, "close" the one of a
\* close setup, "none" the dash.
getSetupStatus(s) ==
    IF isFullSetup(s) THEN "full" ELSE IF isCloseSetup(s) THEN "close" ELSE "none"

\* isNearSMA: |price - sma| / sma * 100 <= thresholdPct, false for sma <= 0
isNearSMA(price, sma, thresholdPct) ==
    IF sma <= 0 THEN FALSE
    ELSE Abs(price - sma) * 100 <= thresholdPct * sma

\* months >= m and months <= m for months = days / 21
MonthsAtLeast(days, m) == days >= m * TRADING_DAYS_PER_MONTH
MonthsAtMost(days, m) == days <= m * TRADING_DAYS_PER_MONTH

Flag(b) == IF b THEN "true" ELSE "false"

\* The six flags as CALCULATIONS.md sections 8-13 derive them from the
\* record's values; a flag whose value is not available is not set.
SetupFlags(s) ==
    LET absPct == Abs(s.pctFromAth[1])
        days   == s.monthsInConsolidation[1]
        near   == isNearSMA(s.lastPrice, s.sma21[1], sma21TouchThresholdPct)
        window == /\ MonthsAtLeast(days, consolidationMinMonths)
                  /\ MonthsAtMost(days, consolidationMaxMonths)
    IN  [nearSMA21 |-> IF s.sma21 = Absent THEN "undefined" ELSE Flag(near),
         nearSMA21Close |->
            IF s.sma21 = Absent THEN "undefined"
            ELSE Flag(~near /\ isNearSMA(s.lastPrice, s.sma21[1], sma21CloseThresholdPct)),
         nearAth |->
            IF s.pctFromAth = Absent THEN "undefined"
            ELSE Flag(absPct <= athThresholdPct),
         nearAthClose |->
            IF s.pctFromAth = Absent THEN "undefined"
            ELSE Flag(absPct > athThresholdPct /\ absPct <= athCloseThresholdPct),
         inConsolidationWindow |->
            IF s.monthsInConsolidation = Absent THEN "undefined" ELSE Flag(window),
         inConsolidationClose |->
            IF s.monthsInConsolidation = Absent THEN "undefined"
            ELSE Flag(/\ ~window
                      /\ MonthsAtLeast(days, consolidationCloseMinMonths)
                      /\ ~MonthsAtLeast(days, consolidationMinMonths))]

\* One line of formatSetupIndicator: the dimension and the mark it shows
\* ("met" is the check mark, "close" the tilde, "far" the cross).
Line(label, met, close) ==
    [label |-> label, mark |-> IF met THEN "met" ELSE IF close THEN "close" ELSE "far"]

\* formatSetupIndicator, the SMA21 line
SmaLines(stock, smaTouch, smaClose) ==
    IF stock.sma21 # Absent /\ stock.sma21[1] > 0
    THEN LET sma == stock.sma21[1]
             \* pctFromSMA <= t  iff  |lastPrice - sma21| * 100 <= t * sma21
             d     == Abs(stock.lastPrice - sma) * 100
             met   == d <= smaTouch * sma
             close == ~met /\ d <= smaClose * sma
         IN  <<Line("SMA21", met, close)>>
    ELSE <<>>

HighLinesMutantStrict(stock, athThreshold, athCloseThreshold) ==
    IF stock.pctFromAth # Absent
    THEN LET absPct == Abs(stock.pctFromAth[1])
             met    == absPct < athThreshold
             close  == absPct > athThreshold /\ absPct <= athCloseThreshold
         IN  <<Line("High", met, close)>>
    ELSE <<>>

\* formatSetupIndicator, the High line
HighLines(stock, athThreshold, athCloseThreshold) ==
    IF stock.pctFromAth # Absent
    THEN LET absPct == Abs(stock.pctFromAth[1])
             met    == absPct <= athThreshold
             close  == absPct > athThreshold /\ absPct <= athCloseThreshold
         IN  <<Line("High", met, close)>>
    ELSE <<>>

\* formatSetupIndicator, the Base line
BaseLines(stock, baseMin, baseMax, baseCloseMin) ==
    IF stock.monthsInConsolidation # Absent
    THEN LET mo    == stock.monthsInConsolidation[1]
             met   == MonthsAtLeast(mo, baseMin) /\ MonthsAtMost(mo, baseMax)
             close == MonthsAtLeast(mo, baseCloseMin) /\ ~MonthsAtLeast(mo, baseMin)
         IN  <<Line("Base", met, close)>>
    ELSE <<>>

\* formatSetupIndicator: one line for each dimension that has a value.
formatSetupIndicator(stock, athThreshold, athCloseThreshold, smaTouch, smaClose, baseMin, baseMax, baseCloseMin) ==
    SmaLines(stock, smaTouch, smaClose)
    \o HighLines(stock, athThreshold, athCloseThreshold)
    \o BaseLines(stock, baseMin, baseMax, baseCloseMin)

\* formatStockForLlm, the SMA21 part of the row: the check mark when met,
\* the tilde otherwise
LlmSmaLines(stock) ==
    IF stock.sma21 # Absent /\ stock.sma21[1] > 0
    THEN LET sma == stock.sma21[1]
             d   == Abs(stock.lastPrice - sma) * 100
             met == d <= sma21TouchThresholdPct * sma
         IN  <<[label |-> "SMA21", mark |-> IF met THEN "met" ELSE "close"]>>
    ELSE <<>>

\* formatStockForLlm, the High part of the row: the check mark when met,
\* the tilde otherwise
LlmHighLines(stock) ==
    IF stock.pctFromAth # Absent
    THEN LET absPct == Abs(stock.pctFromAth[1])
             met    == absPct <= athThresholdPct
         IN  <<[label |-> "High", mark |-> IF met THEN "met" ELSE "close"]>>
    ELSE <<>>

\* formatStockForLlm, the Base part of the row: met ? check : close ? tilde : cross
LlmBaseLines(stock) ==
    IF stock.monthsInConsolidation # Absent
    THEN LET mo    == stock.monthsInConsolidation[1]
             met   == MonthsAtLeast(mo, consolidationMinMonths)
                      /\ MonthsAtMost(mo, consolidationMaxMonths)
             close == MonthsAtLeast(mo, consolidationCloseMinMonths)
                      /\ ~MonthsAtLeast(mo, consolidationMinMonths)
         IN  <<[label |-> "Base",
                mark |-> IF met THEN "met" ELSE IF close THEN "close" ELSE "far"]>>
    ELSE <<>>

\* formatStockForLlm: the marks of the row, one for each dimension that has
\* a value (a dimension without a value is written as a dash, with no mark).
formatStockForLlm(stock) == LlmSmaLines(stock) \o LlmHighLines(stock) \o LlmBaseLines(stock)

\* formatDailyReport: the emoji after "Setup", on a row that is written only
\* when formatSetupIndicator returned a line.
SetupRowEmoji(stock, lines) ==
    IF Len(lines) > 0
    THEN (IF isFullSetup(stock) THEN "full"
          ELSE IF isCloseSetup(stock) THEN "close" ELSE "none")
    ELSE "no row"

FlagNames == {"nearSMA21", "nearAth", "inConsolidationWindow",
              "nearSMA21Close", "nearAthClose", "inConsolidationClose"}

\* A record as the setup functions read it.
SetupStock(f, lastPrice, sma21, pctFromAth, days) ==
    [nearSMA21 |-> f.nearSMA21, nearAth |-> f.nearAth,
     inConsolidationWindow |-> f.inConsolidationWindow,
     nearSMA21Close |-> f.nearSMA21Close, nearAthClose |-> f.nearAthClose,
     inConsolidationClose |-> f.inConsolidationClose,
     lastPrice |-> lastPrice, sma21 |-> sma21, pctFromAth |-> pctFromAth,
     monthsInConsolidation |-> days]

\* Records that come with their flags set, each flag true, false or left out.
FlaggedStocks == {SetupStock(f, 100, Absent, Absent, Absent) : f \in [FlagNames -> FlagVals]}

\* Records that come with values: prices at and around 3% and 5% from an
\* average of 100 (which may be missing or 0), distances at and around 20%
\* and 25% below the high, bases at and around 4, 6 and 36 months.
LastPriceVals == {97, 103, 104, 105, 106}
Sma21Vals == {Absent, Some(0), Some(100)}
PctFromAthVals == {Absent, Some(0), Some(-20), Some(-21), Some(-25), Some(-26)}
BaseDayVals == {Absent, Some(83), Some(84), Some(125), Some(126), Some(756), Some(757)}

MeasuredStocks ==
    {SetupStock(NoFlags, lp, sma, pct, days) :
        lp \in LastPriceVals, sma \in Sma21Vals, pct \in PctFromAthVals,
        days \in BaseDayVals}

(***************************************************************************)
(* config/index.ts: the watchlist.  A sheet body is the sequence of its    *)
(* lines after trimming, a line the sequence of its cells after trimming   *)
(* and unquoting; <<>> is a blank line.                                    *)
(***************************************************************************)
\* tickerCache: null, or the TickerConfig[] assigned to it
CacheNull == [kind |-> "null"]
CacheOf(items) == [kind |-> "array", items |-> items]

\* toUpperCase and toLowerCase on the cells used below
ToUpperCase(c) == IF c = "aapl" THEN "AAPL" ELSE c
ToLowerCase(c) ==
    IF c = "Symbol" THEN "symbol" ELSE IF c = "Sector" THEN "sector"
    ELSE IF c = "AAPL" THEN "aapl" ELSE c

\* cells[i] || ''
Cell(cells, i) == IF i <= Len(cells) THEN cells[i] ELSE ""

\* isHeaderRow: the first cell, lower-cased, is or includes symbol or sector
isHeaderRow(cells) == ToLowerCase(Cell(cells, 1)) \in {"symbol", "sector"}

\* parseWatchlistCsv: the rows with a symbol, the sector defaulting to Other
ParsedRows(csv) ==
    LET lines == SelectSeq(csv, LAMBDA l : l # <<>>)
        rows  == IF Len(lines) > 0 /\ isHeaderRow(lines[1]) THEN Tail(lines) ELSE lines
        kept  == SelectSeq(rows, LAMBDA cells : Cell(cells, 1) # "")
    IN  [k \in 1..Len(kept) |->
            [symbol |-> Cell(kept[k], 1),
             sector |-> IF Cell(kept[k], 2) = "" THEN "Other" ELSE Cell(kept[k], 2)]]

\* parseWatchlistCsv(csv): throws on a sheet without lines or without a
\* ticker row.
parseWatchlistCsv(csv) ==
    IF SelectSeq(csv, LAMBDA l : l # <<>>) = <<>>
    THEN [completion |-> "throw", value |-> "Watchlist sheet is empty."]
    ELSE IF ParsedRows(csv) = <<>>
    THEN [completion |-> "throw", value |-> "Watchlist sheet has no valid ticker rows"]
    ELSE [completion |-> "return", value |-> ParsedRows(csv)]

\* fetchWatchlistCsv(sheetId): throws when fetch rejects or on a non-2xx
\* response, returns the body otherwise.
fetchWatchlistCsv(r) ==
    IF r.type = "network-error" THEN [completion |-> "throw", value |-> "fetch failed"]
    ELSE IF ~HttpOk(r.status)
    THEN [completion |-> "throw", value |-> "Failed to fetch watchlist"]
    ELSE [completion |-> "return", value |-> r.body]

CacheAfterFetchMutantClearsOnFailure(cache, r) ==
    LET csv == fetchWatchlistCsv(r) IN
    IF csv.completion = "throw" THEN CacheNull
    ELSE LET parsed == parseWatchlistCsv(csv.value) IN
         IF parsed.completion = "throw" THEN CacheNull ELSE CacheOf(parsed.value)

\* fetchAndCacheWatchlist after the sheet id check: tickerCache is assigned
\* only when neither fetchWatchlistCsv nor parseWatchlistCsv has thrown.
CacheAfterFetch(cache, r) ==
    LET csv == fetchWatchlistCsv(r) IN
    IF csv.completion = "throw" THEN cache
    ELSE LET parsed == parseWatchlistCsv(csv.value) IN
         IF parsed.completion = "throw" THEN cache ELSE CacheOf(parsed.value)

\* How fetchAndCacheWatchlist settles on the response r.
FetchAndCacheOutcome(r) ==
    LET csv == fetchWatchlistCsv(r) IN
    IF csv.completion = "throw" THEN csv
    ELSE LET parsed == parseWatchlistCsv(csv.value) IN
         IF parsed.completion = "throw" THEN parsed
         ELSE [completion |-> "return", value |-> "undefined"]

NotLoaded == "Watchlist not loaded"

\* getTickers(): throws while tickerCache is null
getTickers(cache) ==
    IF cache = CacheNull THEN [completion |-> "throw", value |-> NotLoaded]
    ELSE [completion |-> "return", value |-> cache.items]

\* loadWatchlist()
loadWatchlist(cache) ==
    LET t == getTickers(cache) IN
    IF t.completion = "throw" THEN t
    ELSE [completion |-> "return",
          value |-> [k \in 1..Len(t.value) |-> ToUpperCase(t.value[k].symbol)]]

\* getSectorForTicker(symbol)
getSectorForTicker(cache, symbol) ==
    LET t == getTickers(cache) IN
    IF t.completion = "throw" THEN t
    ELSE LET hits == SelectSeq(t.value,
                        LAMBDA x : ToUpperCase(x.symbol) = ToUpperCase(symbol))
         IN  [completion |-> "return",
              value |-> IF hits = <<>> THEN "Other" ELSE hits[1].sector]

SheetResponse(type, status, body) == [type |-> type, status |-> status, body |-> body]

\* What the sheet export can answer: no connection, a sheet that is not
\* shared, an empty sheet, a header with rows that have no symbol, a sheet
\* with a header, a blank line, a lower-case symbol and a row without
\* sector, and a sheet without header.
SheetResponses ==
    { SheetResponse("network-error", 0, <<>>),
      SheetResponse("http", 404, <<>>),
      SheetResponse("http", 200, <<>>),
      SheetResponse("http", 200, << <<"Symbol", "Sector">>, <<"", "">> >>),
      SheetResponse("http", 200,
                    << <<"Symbol", "Sector">>, <<>>, <<"aapl", "Technology">>, <<"META">> >>),
      SheetResponse("http", 200, << <<"XOM", "Energy">> >>) }

\* The symbols getSectorForTicker is asked about
LookupSymbols == {"AAPL"}

ConfigIdle ==
    /\ googleSheetId = FALSE
    /\ tickerCache = CacheNull
    /\ cfgInFlight = 0
    /\ cfgLog = <<>>

SetupIdle ==
    /\ setupPc = "idle"
    /\ setupStock = SetupStock(NoFlags, 100, Absent, Absent, Absent)
    /\ setupStatus = "unset"
    /\ setupLines = <<>>
    /\ setupEmoji = "unset"
    /\ llmLines = <<>>

MainIdle ==
    /\ mainEnv = [finnhubApiKey |-> FALSE, telegramBotToken |-> FALSE,
                  telegramChatId |-> FALSE, topN |-> 15, marketClosed |-> FALSE,
                  forceScan |-> FALSE]
    /\ mainPc = "idle"
    /\ mainWarned = FALSE
    /\ mainFetchArgs = <<>>

IndIdle ==
    /\ indPrices = <<>>
    /\ indPeriods = 0
    /\ indPc = "idle"
    /\ indResult = [kind |-> "unset"]

ReportIdle == silentItems = <<>>

\* let lastError: Error | undefined
Undefined == [kind |-> "undefined", attempt |-> 0, wrapped |-> FALSE]

RetryIdle ==
    /\ retryArgs = [maxRetries |-> 3, baseDelayMs |-> 1000]
    /\ retryPc = "idle"
    /\ attempt = 0
    /\ lastError = Undefined
    /\ retryTrace = <<>>
    /\ retryOutcome = Undefined

SendIdle ==
    /\ sendIn = [report |-> <<>>, top |-> 0, silent |-> 0, rows |-> 0,
                 enableLlmSummary |-> FALSE, hasKey |-> FALSE, llmPerStock |-> FALSE]
    /\ sendPc = "idle"
    /\ sendChunks = <<>>
    /\ sendSummary = [kind |-> "null", len |-> 0]
    /\ sendI = 1
    /\ sentMessages = <<>>

MoreIdle == RetryIdle /\ SendIdle

RestIdle ==
    SetupIdle /\ ConfigIdle /\ MainIdle /\ IndIdle /\ ReportIdle /\ MoreIdle

FetchIdle ==
    /\ tickers = <<>>

    /\ twelveKey = FALSE
    /\ fetchPc = "idle"
    /\ queue = <<>>
    /\ activeCount = 0
    /\ microtasks = 0
    /\ taskPc = <<>>
    /\ calls = <<>>
    /\ yahooOut = <<>>
    /\ twelveOut = <<>>
    /\ taskResult = <<>>
    /\ results = <<>>
    /\ failedTickers = <<>>

RankIdle ==
    /\ rankPc = "idle"
    /\ stocks = <<>>
    /\ rvolConfig = [minRVOL |-> 20, topN |-> 1, priceChangeThreshold |-> 2]
    /\ highRVOL = <<>>
    /\ topSignals = <<>>
    /\ volumeWithoutPrice = <<>>

FetchInit ==
    /\ RankIdle
    /\ \E n \in 1..MaxTickers : tickers = [i \in 1..n |-> i]
    /\ twelveKey \in BOOLEAN
    /\ fetchPc = "idle"
    /\ queue = <<>>
    /\ activeCount = 0
    /\ microtasks = 0
    /\ taskPc = [i \in Tasks |-> "new"]
    /\ calls = [i \in Tasks |-> <<>>]
    /\ yahooOut = [i \in Tasks |-> Null]
    /\ twelveOut = [i \in Tasks |-> Null]
    /\ taskResult = [i \in Tasks |-> Null]
    /\ results = <<>>
    /\ failedTickers = <<>>
    /\ RestIdle

\* fetchAllStocks(tickers): tickers.map hands every task to limit(), which
\* queues it and schedules one continuation per task.
FetchAllStocks ==
    /\ fetchPc = "idle"
    /\ fetchPc' = "running"
    /\ queue' = [i \in Tasks |-> i]
    /\ microtasks' = Len(tickers)
    /\ taskPc' = [i \in Tasks |-> "queued"]
    /\ UNCHANGED <<tickers, twelveKey, activeCount, calls, yahooOut, twelveOut,
                   taskResult, results, failedTickers>>
    /\ UNCHANGED <<rankVars, restVars>>

\* The task at the head of the queue starts: it calls fetchFromYahooChart.
Started(pcs, q) == [pcs EXCEPT ![Head(q)] = "yahoo"]

\* p-limit, the continuation of enqueue(): start the oldest queued task if
\* fewer than the limit are active.
PLimitEnqueueTick ==
    /\ microtasks > 0
    /\ microtasks' = microtasks - 1
    /\ IF PLimitCanStart(activeCount) /\ queue # <<>>
       THEN /\ taskPc' = Started(taskPc, queue)
            /\ queue' = Tail(queue)
            /\ activeCount' = activeCount + 1
       ELSE UNCHANGED <<taskPc, queue, activeCount>>
    /\ UNCHANGED <<tickers, twelveKey, fetchPc, calls, yahooOut, twelveOut,
                   taskResult, results, failedTickers>>
    /\ UNCHANGED <<rankVars, restVars>>

SettleMutantNoNext(i, how) ==
    /\ taskPc' = [taskPc EXCEPT ![i] = how]
    /\ queue' = queue
    /\ activeCount' = activeCount - 1

\* The task i settles as `how` ("done" or "rejected"), and p-limit's next()
\* runs: one fewer is active, and the oldest queued task, if any, starts.
Settle(i, how) ==
    LET pcs == [taskPc EXCEPT ![i] = how] IN
    IF queue # <<>>
    THEN /\ taskPc' = Started(pcs, queue)
         /\ queue' = Tail(queue)
         /\ activeCount' = activeCount
    ELSE /\ taskPc' = pcs
         /\ queue' = queue
         /\ activeCount' = activeCount - 1

\* The Yahoo chart request of task i is answered.
YahooChartReturns(i) ==
    /\ fetchPc \in {"running", "rejected"}
    /\ microtasks = 0
    /\ taskPc[i] = "yahoo"
    /\ \E r \in YahooResponses :
         LET c == fetchFromYahooChart(tickers[i], r)
             first == [adapter |-> "Yahoo Chart", ended |-> EndedAs(c.value, YahooTransient(r))]
             second == [adapter |-> "Twelve Data", ended |-> "nodata"]
         IN  IF c.completion = "throw"
             THEN /\ calls' = [calls EXCEPT ![i] = Append(@, first)]
                  /\ Settle(i, "rejected")
                  /\ UNCHANGED <<yahooOut, twelveOut, taskResult>>
             ELSE /\ yahooOut' = [yahooOut EXCEPT ![i] = c.value]
                  /\ IF ~NeedsFallback(c.value)
                     THEN /\ calls' = [calls EXCEPT ![i] = Append(@, first)]
                          /\ taskResult' = [taskResult EXCEPT ![i] = c.value]
                          /\ Settle(i, "done")
                          /\ UNCHANGED twelveOut
                     ELSE IF twelveKey
                     THEN /\ calls' = [calls EXCEPT ![i] = Append(@, first)]
                          /\ taskPc' = [taskPc EXCEPT ![i] = "twelve"]
                          /\ UNCHANGED <<queue, activeCount, twelveOut, taskResult>>
                     ELSE \* without a key fetchFromTwelveData returns null at once
                          LET t == fetchFromTwelveData(tickers[i], twelveKey,
                                                       CHOOSE x \in TwelveResponses : TRUE)
                          IN  /\ calls' = [calls EXCEPT ![i] = Append(Append(@, first), second)]
                              /\ twelveOut' = [twelveOut EXCEPT ![i] = t.value]
                              /\ taskResult' = [taskResult EXCEPT ![i] = t.value]
                              /\ Settle(i, "done")
    /\ UNCHANGED <<tickers, twelveKey, fetchPc, microtasks, results, failedTickers>>
    /\ UNCHANGED <<rankVars, restVars>>

\* The Twelve Data request of task i is answered.
TwelveDataReturns(i) ==
    /\ fetchPc \in {"running", "rejected"}
    /\ microtasks = 0
    /\ taskPc[i] = "twelve"
    /\ \E r \in TwelveResponses :
         LET c == fetchFromTwelveData(tickers[i], twelveKey, r) IN
         /\ calls' = [calls EXCEPT ![i] =
                Append(@, [adapter |-> "Twelve Data", ended |-> EndedAs(c.value, TwelveTransient(r))])]
         /\ IF c.completion = "throw"
            THEN /\ Settle(i, "rejected")
                 /\ UNCHANGED <<twelveOut, taskResult>>
            ELSE /\ twelveOut' = [twelveOut EXCEPT ![i] = c.value]
                 /\ taskResult' = [taskResult EXCEPT ![i] = c.value]
                 /\ Settle(i, "done")
    /\ UNCHANGED <<tickers, twelveKey, fetchPc, microtasks, yahooOut, results,
                   failedTickers>>
    /\ UNCHANGED <<rankVars, restVars>>

\* await Promise.all(tasks), and the collection of the records: the promise
\* rejects with the first task that rejects and resolves when all are done.
PromiseAllSettles ==
    /\ fetchPc = "running"
    /\ \/ \E i \in Tasks : taskPc[i] = "rejected"
       \/ \A i \in Tasks : taskPc[i] = "done"
    /\ IF \E i \in Tasks : taskPc[i] = "rejected"
       THEN /\ fetchPc' = "rejected"
            /\ UNCHANGED <<results, failedTickers>>
       ELSE /\ fetchPc' = "resolved"
            /\ results' = CollectResults(taskResult)
            /\ failedTickers' = FailedTickers(tickers, taskResult)
    /\ UNCHANGED <<tickers, twelveKey, queue, activeCount, microtasks, taskPc, calls,
                   yahooOut, twelveOut, taskResult>>
    /\ UNCHANGED <<rankVars, restVars>>

FetchNext ==
    \/ FetchAllStocks
    \/ PLimitEnqueueTick
    \/ \E i \in Tasks : YahooChartReturns(i)
    \/ \E i \in Tasks : TwelveDataReturns(i)
    \/ PromiseAllSettles

SpecFetch == FetchInit /\ [][FetchNext]_vars

\* The same machine with the scheduling the runtime gives: the call is made,
\* the event loop runs every pending continuation, every provider request
\* is answered (with a response or a failure), and Promise.all settles once
\* it can.
SpecFetchFair ==
    /\ FetchInit
    /\ [][FetchNext]_vars
    /\ WF_vars(FetchAllStocks)
    /\ WF_vars(PLimitEnqueueTick)
    /\ \A i \in 1..MaxTickers : WF_vars(i \in Tasks /\ YahooChartReturns(i))
    /\ \A i \in 1..MaxTickers : WF_vars(i \in Tasks /\ TwelveDataReturns(i))
    /\ WF_vars(PromiseAllSettles)

(***************************************************************************)
(* services/rvolCalculator.ts: calculateRVOL as a state machine            *)
(***************************************************************************)
RankInit ==
    /\ FetchIdle
    /\ RestIdle
    /\ rankPc = "input"
    /\ \E n \in 0..MaxStocks : stocks \in StockLists(n)
    /\ \E k \in 1..MaxTopN :
         rvolConfig = [minRVOL |-> 20, topN |-> k, priceChangeThreshold |-> 2]
    /\ highRVOL = <<>>
    /\ topSignals = <<>>
    /\ volumeWithoutPrice = <<>>

\* calculateRVOL(stocks, rvolConfig)
CalculateRVOL ==
    /\ rankPc = "input"
    /\ LET filtered == FilterHighRVOL(stocks, rvolConfig.minRVOL)
           sorted   == ArraySort(filtered)
       IN  /\ highRVOL' = sorted
           /\ topSignals' = SliceFromStart(sorted, rvolConfig.topN)
           /\ volumeWithoutPrice' =
                FilterVolumeWithoutPrice(sorted, rvolConfig.priceChangeThreshold)
    /\ rankPc' = "done"
    /\ UNCHANGED <<stocks, rvolConfig>>
    /\ UNCHANGED <<fetchVars, restVars>>

RankNext == CalculateRVOL

SpecRank == RankInit /\ [][RankNext]_vars

(***************************************************************************)
(* services/telegramBot.ts: formatDailyReport on the result of             *)
(* calculateRVOL, as main passes it on.                                    *)
(***************************************************************************)
\* sorted, a list in descending rvol, with s put behind the records whose
\* rvol is not lower
InsertByRvol(sorted, s) ==
    LET k == Cardinality({i \in 1..Len(sorted) : sorted[i].rvol >= s.rvol})
    IN SubSeq(sorted, 1, k) \o <<s>> \o SubSeq(sorted, k + 1, Len(sorted))

\* w.sort((a, b) => b.rvol - a.rvol): the comparator is a consistent order
\* and the sort is stable, so the result is the stable descending order.
RECURSIVE SortByRvolDescending(_)
SortByRvolDescending(w) ==
    IF w = <<>> THEN <<>>
    ELSE InsertByRvol(SortByRvolDescending(SubSeq(w, 1, Len(w) - 1)), w[Len(w)])

MaxReportStocks == 6

\* <<rvol, priceChange, flags>> of the records of a report: one below the
\* volume threshold, two quiet ones, of which the lower is a full setup
\* that the ranking puts before the other, less than 0.5 above it, and a
\* loud one.
ReportChoices ==
    {<<15, 1, NoFlags>>,
     <<20, 1, [NoFlags EXCEPT !.nearSMA21 = "true", !.nearAth = "true",
                              !.inConsolidationWindow = "true"]>>,
     <<23, 1, NoFlags>>, <<25, -3, NoFlags>>}

ReportStockLists(n) ==
    { [i \in 1..n |-> StockData(i, c[i][1], c[i][2], c[i][3])] :
        c \in [1..n -> ReportChoices] }

ReportInit ==
    /\ FetchIdle
    /\ RestIdle
    /\ rankPc = "input"
    /\ \E n \in 0..MaxReportStocks : stocks \in ReportStockLists(n)
    /\ \E k \in 1..MaxTopN :
         rvolConfig = [minRVOL |-> 20, topN |-> k, priceChangeThreshold |-> 2]
    /\ highRVOL = <<>>
    /\ topSignals = <<>>
    /\ volumeWithoutPrice = <<>>

\* formatDailyReport(date, topSignals, volumeWithoutPrice, failedTickers):
\* the Silent Activity section.  The sort is the array's own, in place.
FormatDailyReport ==
    /\ rankPc = "done"
    /\ IF Len(topSignals) = 0 \/ Len(volumeWithoutPrice) = 0
       THEN /\ silentItems' = <<>>
            /\ UNCHANGED volumeWithoutPrice
       ELSE LET sorted == SortByRvolDescending(volumeWithoutPrice) IN
            /\ volumeWithoutPrice' = sorted
            /\ silentItems' = SliceFromStart(sorted, 5)
    /\ rankPc' = "reported"
    /\ UNCHANGED <<stocks, rvolConfig, highRVOL, topSignals>>
    /\ UNCHANGED notReportVars

ReportNext ==
    \/ CalculateRVOL
    \/ FormatDailyReport

SpecReport == ReportInit /\ [][ReportNext]_vars

(***************************************************************************)
(* The setup classification of one record as a state machine: a record     *)
(* comes either with its flags set or with the values its flags are        *)
(* derived from; it is classified and then written to the report.          *)
(***************************************************************************)
SetupInit ==
    /\ RankIdle
    /\ FetchIdle
    /\ ConfigIdle
    /\ MainIdle
    /\ IndIdle
    /\ ReportIdle
    /\ MoreIdle
    /\ \/ setupPc = "flagged" /\ setupStock \in FlaggedStocks
       \/ setupPc = "measured" /\ setupStock \in MeasuredStocks
    /\ setupStatus = "unset"
    /\ setupLines = <<>>
    /\ setupEmoji = "unset"
    /\ llmLines = <<>>

\* The flags are derived from the record's values.
EnrichSetup ==
    /\ setupPc = "measured"
    /\ setupStock' =
         LET f == SetupFlags(setupStock) IN
         SetupStock(f, setupStock.lastPrice, setupStock.sma21, setupStock.pctFromAth,
                    setupStock.monthsInConsolidation)
    /\ setupPc' = "enriched"
    /\ UNCHANGED <<setupStatus, setupLines, setupEmoji, llmLines>>
    /\ UNCHANGED notSetupVars

\* getSetupStatus(s)
GetSetupStatus ==
    /\ setupPc \in {"flagged", "enriched"}
    /\ setupStatus' = getSetupStatus(setupStock)
    /\ setupPc' = "classified"
    /\ UNCHANGED <<setupStock, setupLines, setupEmoji, llmLines>>
    /\ UNCHANGED notSetupVars

\* formatDailyReport, the Setup row of one stock
FormatSetupRow ==
    /\ setupPc = "classified"
    /\ LET lines == formatSetupIndicator(setupStock,
                        athThresholdPct, athCloseThresholdPct,
                        sma21TouchThresholdPct, sma21CloseThresholdPct,
                        consolidationMinMonths, consolidationMaxMonths,
                        consolidationCloseMinMonths)
       IN  /\ setupLines' = lines
           /\ setupEmoji' = SetupRowEmoji(setupStock, lines)
    /\ setupPc' = "reported"
    /\ UNCHANGED <<setupStock, setupStatus, llmLines>>
    /\ UNCHANGED notSetupVars

\* buildPrompt: stocks.map(formatStockForLlm), the row of the same stock in
\* the prompt that sendDailyReport asks for after formatDailyReport
FormatStockForLlm ==
    /\ setupPc = "reported"
    /\ llmLines' = formatStockForLlm(setupStock)
    /\ setupPc' = "prompted"
    /\ UNCHANGED <<setupStock, setupStatus, setupLines, setupEmoji>>
    /\ UNCHANGED notSetupVars

SetupNext == EnrichSetup \/ GetSetupStatus \/ FormatSetupRow \/ FormatStockForLlm

SpecSetup == SetupInit /\ [][SetupNext]_vars

(***************************************************************************)
(* config/index.ts: calls on the module in any order.  A call of           *)
(* fetchAndCacheWatchlist that has passed the sheet id check waits for the *)
(* sheet; the other calls complete at once.                                *)
(***************************************************************************)
MaxCalls == 4

ConfigInit ==
    /\ RankIdle
    /\ FetchIdle
    /\ SetupIdle
    /\ MainIdle
    /\ IndIdle
    /\ ReportIdle
    /\ MoreIdle
    /\ googleSheetId \in BOOLEAN
    /\ tickerCache = CacheNull
    /\ cfgInFlight = 0
    /\ cfgLog = <<>>

Logged(call, c) == [call |-> call, completion |-> c.completion, value |-> c.value]

\* fetchAndCacheWatchlist() is called: it throws without a sheet id and
\* requests the sheet otherwise.
CallFetchAndCacheWatchlist ==
    /\ Len(cfgLog) + cfgInFlight < MaxCalls
    /\ IF ~googleSheetId
       THEN /\ cfgLog' = Append(cfgLog, Logged("fetchAndCacheWatchlist",
                            [completion |-> "throw", value |-> "GOOGLE_SHEET_ID is required"]))
            /\ UNCHANGED cfgInFlight
       ELSE /\ cfgInFlight' = cfgInFlight + 1
            /\ UNCHANGED cfgLog
    /\ UNCHANGED <<googleSheetId, tickerCache>>
    /\ UNCHANGED notCfgVars

\* The sheet answers one of the waiting fetchAndCacheWatchlist calls.
WatchlistResponds ==
    /\ cfgInFlight > 0
    /\ \E r \in SheetResponses :
         /\ tickerCache' = CacheAfterFetch(tickerCache, r)
         /\ cfgLog' = Append(cfgLog, Logged("fetchAndCacheWatchlist", FetchAndCacheOutcome(r)))
    /\ cfgInFlight' = cfgInFlight - 1
    /\ UNCHANGED googleSheetId
    /\ UNCHANGED notCfgVars

\* loadWatchlist() is called.
CallLoadWatchlist ==
    /\ Len(cfgLog) + cfgInFlight < MaxCalls
    /\ cfgLog' = Append(cfgLog, Logged("loadWatchlist", loadWatchlist(tickerCache)))
    /\ UNCHANGED <<googleSheetId, tickerCache, cfgInFlight>>
    /\ UNCHANGED notCfgVars

\* getSectorForTicker(symbol) is called.
CallGetSectorForTicker ==
    /\ Len(cfgLog) + cfgInFlight < MaxCalls
    /\ \E symbol \in LookupSymbols :
         cfgLog' = Append(cfgLog, Logged("getSectorForTicker",
                                        getSectorForTicker(tickerCache, symbol)))
    /\ UNCHANGED <<googleSheetId, tickerCache, cfgInFlight>>
    /\ UNCHANGED notCfgVars

ConfigNext ==
    \/ CallFetchAndCacheWatchlist
    \/ WatchlistResponds
    \/ CallLoadWatchlist
    \/ CallGetSectorForTicker

SpecConfig == ConfigInit /\ [][ConfigNext]_vars

(***************************************************************************)
(* index.ts: main()                                                        *)
(***************************************************************************)
\* validateConfig(): the required variables that are missing
MissingConfig(env, sheetId) ==
    (IF env.finnhubApiKey THEN {} ELSE {"FINNHUB_API_KEY"})
    \cup (IF env.telegramBotToken THEN {} ELSE {"TELEGRAM_BOT_TOKEN"})
    \cup (IF env.telegramChatId THEN {} ELSE {"TELEGRAM_CHAT_ID"})
    \cup (IF sheetId THEN {} ELSE {"GOOGLE_SHEET_ID"})

\* validateConfig(): throws when a required variable is missing
validateConfig(env, sheetId) ==
    IF MissingConfig(env, sheetId) # {} THEN "throw" ELSE "return"

\* sendTelegramMessage: returns without sending when the credentials are
\* missing; otherwise it returns, or throws when the request fails.
SendOutcomes(env) ==
    IF ~env.telegramBotToken \/ ~env.telegramChatId THEN {"return"}
    ELSE {"return", "throw"}

\* parseInt(process.env.TOP_N): a negative and a positive value
TopNVals == {-1, 2}

MainInit ==
    /\ RankIdle
    /\ FetchIdle
    /\ SetupIdle
    /\ IndIdle
    /\ ReportIdle
    /\ MoreIdle
    /\ googleSheetId \in BOOLEAN
    /\ tickerCache = CacheNull
    /\ cfgInFlight = 0
    /\ cfgLog = <<>>
    /\ mainEnv \in [finnhubApiKey : BOOLEAN, telegramBotToken : BOOLEAN,
                    telegramChatId : BOOLEAN, topN : TopNVals,
                    marketClosed : BOOLEAN, forceScan : BOOLEAN]
    /\ mainPc = "start"
    /\ mainWarned = FALSE
    /\ mainFetchArgs = <<>>

\* 1. Check market status: on a closed market, without FORCE_SCAN, main
\* sends a notice and returns; a failing send ends in the catch block.
MainCheckMarket ==
    /\ mainPc = "start"
    /\ IF mainEnv.marketClosed /\ ~mainEnv.forceScan
       THEN \E o \in SendOutcomes(mainEnv) :
                mainPc' = IF o = "return" THEN "returned" ELSE "exit1"
       ELSE mainPc' = "validate"
    /\ UNCHANGED <<mainEnv, mainWarned, mainFetchArgs>>
    /\ UNCHANGED cfgVars
    /\ UNCHANGED notMainVars

\* 2. Validate configuration: a throw of validateConfig is caught and
\* logged as a warning, and main continues.
MainValidateConfig ==
    /\ mainPc = "validate"
    /\ mainWarned' = (validateConfig(mainEnv, googleSheetId) = "throw")
    /\ mainPc' = "watchlist"
    /\ UNCHANGED <<mainEnv, mainFetchArgs>>
    /\ UNCHANGED cfgVars
    /\ UNCHANGED notMainVars

\* 4. and 5. await fetchAndCacheWatchlist(); loadWatchlist(); and the call
\* of fetchAllStocks(tickers).  A throw ends in the catch block.
MainFetchWatchlist ==
    /\ mainPc = "watchlist"
    /\ IF ~googleSheetId
       THEN /\ mainPc' = "exit1"
            /\ UNCHANGED <<tickerCache, mainFetchArgs>>
       ELSE \E r \in SheetResponses :
                LET cache == CacheAfterFetch(tickerCache, r) IN
                /\ tickerCache' = cache
                /\ IF FetchAndCacheOutcome(r).completion = "throw"
                   THEN /\ mainPc' = "exit1"
                        /\ UNCHANGED mainFetchArgs
                   ELSE /\ mainFetchArgs' = <<loadWatchlist(cache).value>>
                        /\ mainPc' = "fetching"
    /\ UNCHANGED <<mainEnv, mainWarned>>
    /\ UNCHANGED <<googleSheetId, cfgInFlight, cfgLog>>
    /\ UNCHANGED notMainVars

\* fetchAllStocks resolves: without any record main sends a notice and
\* returns, otherwise it goes on to the ranking and the report.
MainFetched ==
    /\ mainPc = "fetching"
    /\ \E noStocks \in BOOLEAN :
         IF noStocks
         THEN \E o \in SendOutcomes(mainEnv) :
                  mainPc' = IF o = "return" THEN "returned" ELSE "exit1"
         ELSE mainPc' = "reporting"
    /\ UNCHANGED <<mainEnv, mainWarned, mainFetchArgs>>
    /\ UNCHANGED cfgVars
    /\ UNCHANGED notMainVars

\* 6. to 9. The ranking, the news and sendDailyReport; a throw ends in the
\* catch block.
MainReport ==
    /\ mainPc = "reporting"
    /\ \E o \in SendOutcomes(mainEnv) :
         mainPc' = IF o = "return" THEN "done" ELSE "exit1"
    /\ UNCHANGED <<mainEnv, mainWarned, mainFetchArgs>>
    /\ UNCHANGED cfgVars
    /\ UNCHANGED notMainVars

MainNext ==
    \/ MainCheckMarket
    \/ MainValidateConfig
    \/ MainFetchWatchlist
    \/ MainFetched
    \/ MainReport

SpecMain == MainInit /\ [][MainNext]_vars

(***************************************************************************)
(* utils/technicalAnalysis.ts: calculateSMA, calculateRSI and              *)
(* calculate52wHighAndConsolidation.  Numbers are fractions <<n, d>>.      *)
(***************************************************************************)
\* a + b
Plus(a, b) == IF a[2] = 0 /\ b[2] = 0
              THEN (IF a[1] * b[1] > 0 THEN a ELSE NaN)
              ELSE <<a[1] * b[2] + b[1] * a[2], a[2] * b[2]>>

JsSliceMutantWhole(arr, start) == arr

\* Array.prototype.slice(start): a negative start counts from the end, and
\* -0 is 0.
JsSlice(arr, start) ==
    LET k == IF start < 0 THEN Max(Len(arr) + start, 0)
             ELSE Min(start, Len(arr))
    IN SubSeq(arr, k + 1, Len(arr))

calculateSMAMutantFromStart(prices, periods) ==
    IF Len(prices) < periods THEN Absent
    ELSE Some(Div(Num(SumSeq(SubSeq(prices, 1, periods))), Num(periods)))

calculateSMA(prices, periods) ==
    IF Len(prices) < periods THEN Absent
    ELSE Some(Div(Num(SumSeq(JsSlice(prices, -periods))), Num(periods)))

\* prices[i] - prices[i - 1], i being the index of the source (from 0)
Diff(prices, i) == prices[i + 1] - prices[i]

\* diff >= 0 ? diff : 0   and   diff < 0 ? -diff : 0
Part(diff, side) ==
    IF side = "gain" THEN (IF diff >= 0 THEN diff ELSE 0)
    ELSE (IF diff < 0 THEN -diff ELSE 0)

\* The first loop: i = 1 .. periods while i < prices.length
RECURSIVE SumParts(_, _, _, _)
SumParts(prices, periods, side, i) ==
    IF i <= periods /\ i < Len(prices)
    THEN Part(Diff(prices, i), side) + SumParts(prices, periods, side, i + 1)
    ELSE 0

\* The second loop: i = periods + 1 .. prices.length - 1
RECURSIVE WilderSmooth(_, _, _, _, _)
WilderSmooth(avg, prices, periods, side, i) ==
    IF i < Len(prices)
    THEN WilderSmooth(Div(Plus(Times(avg, Num(periods - 1)),
                               Num(Part(Diff(prices, i), side))),
                          Num(periods)),
                      prices, periods, side, i + 1)
    ELSE avg

WilderAverageMutantNoSmoothing(prices, periods, side) ==
    Div(Num(SumParts(prices, periods, side, 1)), Num(periods))

\* avgGain or avgLoss after both loops
WilderAverage(prices, periods, side) ==
    WilderSmooth(Div(Num(SumParts(prices, periods, side, 1)), Num(periods)),
                 prices, periods, side, periods + 1)

RsiOfMutantGainOnly(avgGain, avgLoss) ==
    IF IsZero(avgGain) THEN Zero ELSE Num(100)

\* if (avgLoss === 0) return 100; rs = avgGain / avgLoss;
\* return 100 - (100 / (1 + rs))
RsiOf(avgGain, avgLoss) ==
    IF IsZero(avgLoss) THEN Num(100)
    ELSE Minus(Num(100), Div(Num(100), Plus(One, Div(avgGain, avgLoss))))

calculateRSI(prices, periods) ==
    IF Len(prices) < periods + 1 THEN Absent
    ELSE Some(RsiOf(WilderAverage(prices, periods, "gain"),
                    WilderAverage(prices, periods, "loss")))

TRADING_DAYS_52W == 252

\* Math.max(...lookback)
MathMax(w) ==
    CHOOSE m \in {w[i] : i \in 1..Len(w)} : \A i \in 1..Len(w) : w[i] <= m

ScanBackMutantStrict(lookback, ath, i) ==
    LET hits == {j \in 0..i : lookback[j + 1] * 100 > ath * 98}
    IN IF hits = {} THEN -1 ELSE CHOOSE j \in hits : \A k \in hits : k <= j

\* for (i = lookback.length - 1; i >= 0; i--)
\*     if (lookback[i] >= ath * 0.98) { athIndex = i; break; }
\* The loop stops at the greatest index that passes the test.
ScanBack(lookback, ath, i) ==
    LET hits == {j \in 0..i : lookback[j + 1] * 100 >= ath * 98}
    IN IF hits = {} THEN -1 ELSE CHOOSE j \in hits : \A k \in hits : k <= j

calculate52wHighAndConsolidation(closes) ==
    IF Len(closes) < 22 THEN Null
    ELSE LET lookback == JsSlice(closes, -TRADING_DAYS_52W)
             ath == MathMax(lookback)
             lastClose == lookback[Len(lookback)]
             athIndex == ScanBack(lookback, ath, Len(lookback) - 1)
             tradingDaysSinceAth ==
                 IF athIndex >= 0 THEN Len(lookback) - 1 - athIndex
                 ELSE Len(lookback) - 1
         IN [kind |-> "metrics",
             ath |-> ath,
             pctFromAth |-> IF ath > 0
                            THEN Times(Div(Num(lastClose - ath), Num(ath)),
                                       Num(100))
                            ELSE Zero,
             monthsInConsolidation |->
                 Div(Num(tradingDaysSinceAth), Num(TRADING_DAYS_PER_MONTH))]

MaxLen == 4
MaxPrice == 3
MaxPeriods == 3

\* Short series of positive prices, for calculateSMA and calculateRSI
ShortSeries == UNION {[1..n -> 1..MaxPrice] : n \in 0..MaxLen}

\* The adapters keep only the closes c > 0.  48, 49 and 50 sit below, on
\* and above 98% of a peak of 50.
CloseVals == {48, 49, 50}

\* Numbers of repeated closes that give series of 21, 22, 252 and 253
\* values
PadLens == {18, 19, 249, 250}

Closes(head, pad, n, tail) == <<head>> \o [i \in 1..n |-> pad] \o tail

CloseSeries ==
    {Closes(head, pad, n, tail) :
        head \in CloseVals, pad \in CloseVals, n \in PadLens,
        tail \in [1..2 -> CloseVals]}

IndInit ==
    /\ RankIdle
    /\ FetchIdle
    /\ SetupIdle
    /\ ConfigIdle
    /\ MainIdle
    /\ ReportIdle
    /\ MoreIdle
    /\ indResult = [kind |-> "unset"]
    /\ \/ /\ indPc \in {"calculateSMA", "calculateRSI"}
          /\ indPrices \in ShortSeries
          /\ indPeriods \in 0..MaxPeriods
       \/ /\ indPc = "calculate52wHighAndConsolidation"
          /\ indPrices \in CloseSeries
          /\ indPeriods = 0

CallCalculateSMA ==
    /\ indPc = "calculateSMA"
    /\ indResult' = [kind |-> "calculateSMA", completion |-> "return",
                     value |-> calculateSMA(indPrices, indPeriods)]
    /\ indPc' = "done"
    /\ UNCHANGED <<indPrices, indPeriods>>
    /\ UNCHANGED notIndVars

CallCalculateRSI ==
    /\ indPc = "calculateRSI"
    /\ indResult' = [kind |-> "calculateRSI", completion |-> "return",
                     value |-> calculateRSI(indPrices, indPeriods)]
    /\ indPc' = "done"
    /\ UNCHANGED <<indPrices, indPeriods>>
    /\ UNCHANGED notIndVars

CallCalculate52wHighAndConsolidation ==
    /\ indPc = "calculate52wHighAndConsolidation"
    /\ indResult' = [kind |-> "calculate52wHighAndConsolidation",
                     completion |-> "return",
                     value |-> calculate52wHighAndConsolidation(indPrices)]
    /\ indPc' = "done"
    /\ UNCHANGED <<indPrices, indPeriods>>
    /\ UNCHANGED notIndVars

IndNext ==
    \/ CallCalculateSMA
    \/ CallCalculateRSI
    \/ CallCalculate52wHighAndConsolidation

SpecInd == IndInit /\ [][IndNext]_vars

(***************************************************************************)
(* utils/errorHandler.ts: withRetry(fn, maxRetries, baseDelayMs)           *)
(***************************************************************************)
\* What a call of fn settles with.  A value and a thrown Error object are
\* told apart by the attempt that made them; fn may also reject with a
\* value that is not an Error.
Resolved(k) == [kind |-> "value", attempt |-> k, wrapped |-> FALSE]
ErrorOf(k) == [kind |-> "Error", attempt |-> k, wrapped |-> FALSE]
NonError(k) == [kind |-> "string", attempt |-> k, wrapped |-> FALSE]

\* error instanceof Error ? error : new Error(String(error))
ToError(e) ==
    IF e.kind = "Error" THEN e
    ELSE [kind |-> "Error", attempt |-> e.attempt, wrapped |-> TRUE]

\* Math.pow(2, n) for an integer n >= 0
RECURSIVE Pow2(_)
Pow2(n) == IF n <= 0 THEN 1 ELSE 2 * Pow2(n - 1)

BackoffDelayMutantLinear(baseDelayMs, k) == baseDelayMs * k

\* delay = baseDelayMs * Math.pow(2, attempt - 1)
BackoffDelay(baseDelayMs, k) == baseDelayMs * Pow2(k - 1)

IsFinalAttemptMutantNever(k, maxRetries) == FALSE

\* attempt === maxRetries
IsFinalAttempt(k, maxRetries) == k = maxRetries

LoopGoesOnMutantAlwaysOnce(k, maxRetries) == k <= maxRetries \/ k = 1

\* attempt <= maxRetries
LoopGoesOn(k, maxRetries) == k <= maxRetries

\* The greatest maxRetries tried; the default, 3, gives two waits only.
MaxRetryArg == 4

\* baseDelayMs: the default of withRetry and config.retryDelayMs
BaseDelayVals == {1000, 2000}

RetryInit ==
    /\ RankIdle
    /\ FetchIdle
    /\ SetupIdle
    /\ ConfigIdle
    /\ MainIdle
    /\ IndIdle
    /\ ReportIdle
    /\ SendIdle
    /\ \E m \in -1..MaxRetryArg : \E b \in BaseDelayVals :
         retryArgs = [maxRetries |-> m, baseDelayMs |-> b]
    /\ retryPc = "loop"
    /\ attempt = 1
    /\ lastError = Undefined
    /\ retryTrace = <<>>
    /\ retryOutcome = Undefined

\* The loop test passes and the try block calls fn.
RetryCallsFn ==
    /\ retryPc = "loop"
    /\ LoopGoesOn(attempt, retryArgs.maxRetries)
    /\ retryTrace' = Append(retryTrace, [ev |-> "call", n |-> attempt])
    /\ retryPc' = "calling"
    /\ UNCHANGED <<retryArgs, attempt, lastError, retryOutcome>>
    /\ UNCHANGED notRetryVars

\* return await fn(), fn having resolved
RetryFnResolves ==
    /\ retryPc = "calling"
    /\ retryTrace' = Append(retryTrace, [ev |-> "resolve", n |-> attempt])
    /\ retryOutcome' = Resolved(attempt)
    /\ retryPc' = "resolved"
    /\ UNCHANGED <<retryArgs, attempt, lastError>>
    /\ UNCHANGED notRetryVars

\* The catch block: fn rejected with e.
RetryFnRejects ==
    /\ retryPc = "calling"
    /\ \E e \in {ErrorOf(attempt), NonError(attempt)} :
         /\ lastError' = ToError(e)
         /\ IF IsFinalAttempt(attempt, retryArgs.maxRetries)
            THEN /\ retryTrace' = Append(retryTrace,
                                         [ev |-> "reject", n |-> attempt,
                                          error |-> e])
                 /\ retryOutcome' = ToError(e)
                 /\ retryPc' = "rejected"
            ELSE /\ retryTrace' =
                      retryTrace \o
                      << [ev |-> "reject", n |-> attempt, error |-> e],
                         [ev |-> "sleep",
                          n |-> BackoffDelay(retryArgs.baseDelayMs, attempt)] >>
                 /\ retryPc' = "sleeping"
                 /\ UNCHANGED retryOutcome
    /\ UNCHANGED <<retryArgs, attempt>>
    /\ UNCHANGED notRetryVars

\* await sleep(delay) ends; attempt++
RetrySleepEnds ==
    /\ retryPc = "sleeping"
    /\ attempt' = attempt + 1
    /\ retryPc' = "loop"
    /\ UNCHANGED <<retryArgs, lastError, retryTrace, retryOutcome>>
    /\ UNCHANGED notRetryVars

\* The loop test fails; throw lastError
RetryLoopEnds ==
    /\ retryPc = "loop"
    /\ ~LoopGoesOn(attempt, retryArgs.maxRetries)
    /\ retryOutcome' = lastError
    /\ retryPc' = "rejected"
    /\ UNCHANGED <<retryArgs, attempt, lastError, retryTrace>>
    /\ UNCHANGED notRetryVars

RetryNext ==
    \/ RetryCallsFn
    \/ RetryFnResolves
    \/ RetryFnRejects
    \/ RetrySleepEnds
    \/ RetryLoopEnds

SpecRetry == RetryInit /\ [][RetryNext]_vars

(***************************************************************************)
(* services/telegramBot.ts: sendDailyReport.  A text is kept as its lines, *)
(* a line as its length in UTF-16 units and the length of the white space  *)
(* it starts with; a blank line has length 0.  No line of the report ends  *)
(* in white space.  A chunk is the range of lines it holds and its length. *)
(***************************************************************************)
TELEGRAM_MAX_LENGTH == 4096

\* new Date().toISOString().split('T')[0]
DateLen == 10

TextLine(len, lead) == [len |-> len, lead |-> lead]

RECURSIVE SumLens(_, _, _)
SumLens(lines, from, to) ==
    IF from > to THEN 0 ELSE lines[from].len + SumLens(lines, from + 1, to)

\* message.length, the lines joined by '\n'
MessageLen(lines) == SumLens(lines, 1, Len(lines)) + (Len(lines) - 1)

\* currentChunk.length: every line of the chunk is followed by '\n'
CurrentChunkLen(lines, from, to) == SumLens(lines, from, to) + (to - from + 1)

\* currentChunk.trim(): the blank lines at both ends, the white space the
\* first line starts with and the last '\n' are removed.
Trim(lines, from, to) ==
    LET nonBlank == {k \in from..to : lines[k].len > 0} IN
    IF nonBlank = {} THEN [from |-> from, to |-> from - 1, len |-> 0]
    ELSE LET f == CHOOSE k \in nonBlank : \A j \in nonBlank : k <= j
             l == CHOOSE k \in nonBlank : \A j \in nonBlank : k >= j
         IN  [from |-> f, to |-> l,
              len |-> SumLens(lines, f, l) + (l - f) - lines[f].lead]

\* chunkMessage, the loop over the lines: the current chunk holds the lines
\* from..k-1 (none when from = k).
RECURSIVE ChunkLoop(_, _, _, _, _)
ChunkLoop(lines, k, from, chunks, maxLen) ==
    IF k > Len(lines)
    THEN IF Trim(lines, from, k - 1).len > 0
         THEN Append(chunks, Trim(lines, from, k - 1)) ELSE chunks
    ELSE IF CurrentChunkLen(lines, from, k - 1) + lines[k].len + 1 > maxLen
    THEN ChunkLoop(lines, k + 1, k,
                   IF from < k THEN Append(chunks, Trim(lines, from, k - 1)) ELSE chunks,
                   maxLen)
    ELSE ChunkLoop(lines, k + 1, from, chunks, maxLen)

\* chunkMessage(message, maxLen)
chunkMessage(lines, maxLen) ==
    IF MessageLen(lines) <= maxLen
    THEN <<[from |-> 1, to |-> Len(lines), len |-> MessageLen(lines)]>>
    ELSE ChunkLoop(lines, 1, 1, <<>>, maxLen)

\* String(n).length
Digits(n) == IF n < 10 THEN 1 ELSE IF n < 100 THEN 2 ELSE 3

\* `Part ${i + 1}/${chunks.length}`, or undefined (length 0) for one chunk
PartLabelLen(i, n) == IF n > 1 THEN 5 + Digits(i) + 1 + Digits(n) ELSE 0

\* formatMessageDataHeader(date, topSignalsCount, volumeWithoutPriceCount,
\* partLabel), its length: the parts are joined by ' • '.
formatMessageDataHeader(dateLen, topSignalsCount, volumeWithoutPriceCount, partLabelLen) ==
    LET date == 3 + dateLen
        signals == IF topSignalsCount > 0 THEN 3 + Digits(topSignalsCount) + 8 ELSE 0
        silent == IF volumeWithoutPriceCount > 0
                  THEN 3 + Digits(volumeWithoutPriceCount) + 7 ELSE 0
        part == IF partLabelLen > 0 THEN 3 + partLabelLen ELSE 0
    IN  9 + date + signals + silent + part + 9

\* The LLM service (services/llmSummary.ts).  A string is kept as its length.
LlmNull == [kind |-> "null", len |-> 0]
LlmText(n) == [kind |-> "text", len |-> n]
\* if (summary), .filter((a) => a.analysis): null and '' are falsy
NonEmpty(t) == t.kind = "text" /\ t.len > 0

\* What the provider does with a request: it fails (network error, HTTP
\* error, malformed body) or answers with a text, which may be empty or
\* longer than a Telegram message.
LlmAnswers == {[kind |-> "error", len |-> 0], LlmText(0), LlmText(300), LlmText(5000)}

\* callOpenAI, callPerplexity, callGemini: every failure is caught and
\* becomes null.
callLlm(answer) == IF answer.kind = "error" THEN LlmNull ELSE answer

\* getReportSummary(stocks, date, scope)
getReportSummary(cfg, answer) ==
    IF ~cfg.enableLlmSummary THEN LlmNull
    ELSE IF ~cfg.hasKey THEN LlmNull
    ELSE callLlm(answer)

\* getPerStockAnalyses(stocks, date): one analysis for each stock
getPerStockAnalyses(cfg, answer) ==
    IF ~cfg.enableLlmSummary THEN <<>>
    ELSE IF ~cfg.hasKey THEN <<>>
    ELSE [k \in 1..cfg.rows |-> callLlm(answer)]

\* The summary of the per-stock mode: a line for each analysis received,
\* joined by '\n', or null without one.
PerStockSummary(analyses) ==
    LET received == SelectSeq(analyses, NonEmpty)
        lineLens == [k \in 1..Len(received) |-> TextLine(32 + received[k].len, 0)]
    IN  IF Len(received) > 0 THEN LlmText(MessageLen(lineLens)) ELSE LlmNull

AfterSummaryMutantStops(summary) == IF NonEmpty(summary) THEN "sendLlm" ELSE "done"

\* if (summary) the LLM message is sent first; the loop over the chunks
\* follows in either case.
AfterSummary(summary) == IF NonEmpty(summary) THEN "sendLlm" ELSE "chunks"

\* The message of the chunk at index i (from 1)
PartMessage(i) ==
    [kind |-> "part", index |-> i, chunk |-> sendChunks[i],
     len |-> formatMessageDataHeader(DateLen, sendIn.top, sendIn.silent,
                                     PartLabelLen(i, Len(sendChunks)))
             + sendChunks[i].len]

\* llmMessage: the header with the label 'LLM Summary', the explanation,
\* scope line, setup reference and title (at least 200 units), the summary
\* and the closing rule
LlmMessage(summary) ==
    [kind |-> "llm", index |-> 0, chunk |-> [from |-> 0, to |-> 0, len |-> 0],
     len |-> formatMessageDataHeader(DateLen, sendIn.top, sendIn.silent, 11)
             + 200 + summary.len + 26]

MaxLines == 3

\* The lines of a report: a blank line, a news line (indented), a long row,
\* a row close to the limit, and a row above it (the list of failed
\* tickers is one line).
LineVals ==
    {TextLine(0, 0), TextLine(40, 3), TextLine(2040, 0), TextLine(4070, 0),
     TextLine(5000, 0)}

Reports == UNION {[1..n -> LineVals] : n \in 1..MaxLines}

\* topSignals.length, volumeWithoutPrice.length and allSignalRows.length
\* (0 when config.llmMinRvol filters every signal out)
CountVals ==
    {[top |-> 0, silent |-> 0, rows |-> 0], [top |-> 12, silent |-> 3, rows |-> 0],
     [top |-> 12, silent |-> 3, rows |-> 2]}

SendInit ==
    /\ RankIdle
    /\ FetchIdle
    /\ SetupIdle
    /\ ConfigIdle
    /\ MainIdle
    /\ IndIdle
    /\ ReportIdle
    /\ RetryIdle
    /\ \E r \in Reports, c \in CountVals, e \in BOOLEAN, h \in BOOLEAN, p \in BOOLEAN :
         sendIn = [report |-> r, top |-> c.top, silent |-> c.silent, rows |-> c.rows,
                   enableLlmSummary |-> e, hasKey |-> h, llmPerStock |-> p]
    /\ sendPc = "start"
    /\ sendChunks = <<>>
    /\ sendSummary = LlmNull
    /\ sendI = 1
    /\ sentMessages = <<>>

\* sendDailyReport up to its first await: the report is cut into chunks,
\* and the LLM is asked only with signals and rows to show it.
SendDailyReport ==
    /\ sendPc = "start"
    /\ sendChunks' = chunkMessage(sendIn.report, TELEGRAM_MAX_LENGTH)
    /\ sendPc' = IF sendIn.top > 0 /\ sendIn.rows > 0 THEN "llm" ELSE "chunks"
    /\ UNCHANGED <<sendIn, sendSummary, sendI, sentMessages>>
    /\ UNCHANGED notSendVars

\* await getPerStockAnalyses(...) or await getReportSummary(...) returns
LlmReturns ==
    /\ sendPc = "llm"
    /\ \E answer \in LlmAnswers :
         LET summary == IF sendIn.llmPerStock
                        THEN PerStockSummary(getPerStockAnalyses(sendIn, answer))
                        ELSE getReportSummary(sendIn, answer)
         IN  /\ sendSummary' = summary
             /\ sendPc' = AfterSummary(summary)
    /\ UNCHANGED <<sendIn, sendChunks, sendI, sentMessages>>
    /\ UNCHANGED notSendVars

\* await sendTelegramMessage(llmMessage): it returns, or throws when the
\* request fails, and then sendDailyReport rejects.
SendLlmMessage ==
    /\ sendPc = "sendLlm"
    /\ sentMessages' = Append(sentMessages, LlmMessage(sendSummary))
    /\ \E thrown \in BOOLEAN : sendPc' = IF thrown THEN "rejected" ELSE "chunks"
    /\ UNCHANGED <<sendIn, sendChunks, sendSummary, sendI>>
    /\ UNCHANGED notSendVars

\* One turn of the loop: await sendTelegramMessage(msgDataHeader + chunks[i])
SendChunk ==
    /\ sendPc = "chunks"
    /\ sendI <= Len(sendChunks)
    /\ sentMessages' = Append(sentMessages, PartMessage(sendI))
    /\ \E thrown \in BOOLEAN :
         IF thrown
         THEN sendPc' = "rejected" /\ UNCHANGED sendI
         ELSE /\ sendI' = sendI + 1
              /\ sendPc' = IF sendI + 1 <= Len(sendChunks) THEN "chunks" ELSE "done"
    /\ UNCHANGED <<sendIn, sendChunks, sendSummary>>
    /\ UNCHANGED notSendVars

SendNext ==
    \/ SendDailyReport
    \/ LlmReturns
    \/ SendLlmMessage
    \/ SendChunk

SpecSend == SendInit /\ [][SendNext]_vars

(***************************************************************************)
(* Properties of calculateRVOL (under SpecRank)                            *)
(***************************************************************************)
Range(w) == {w[i] : i \in 1..Len(w)}

\* The input records that pass the volume filter.
Qualifying == {s \in Range(stocks) : s.rvol >= rvolConfig.minRVOL}

\* C1: every record of topSignals has rvol >= minRVOL, and topSignals holds
\* at most topN records (topN > 0).
C1_TopSignalsQualifyAndCapped ==
    rankPc = "done" =>
        /\ Len(topSignals) <= rvolConfig.topN
        /\ \A i \in 1..Len(topSignals) : topSignals[i].rvol >= rvolConfig.minRVOL

\* C1 witness: a record was filtered out and the ranking was cut to topN.
C1_Witness ==
    /\ rankPc = "done"
    /\ \E s \in Range(stocks) : s.rvol < rvolConfig.minRVOL
    /\ Len(highRVOL) > rvolConfig.topN
    /\ Len(topSignals) = rvolConfig.topN

\* C2: in the ranking, a record whose rvol is 0.5 or more above another's
\* stands before it, whatever the setup tiers are.
C2_RvolDominates ==
    rankPc = "done" =>
        \A i \in 1..Len(highRVOL) : \A j \in 1..Len(highRVOL) :
            i < j => highRVOL[j].rvol - highRVOL[i].rvol < RvolGap

\* C3: for adjacent records of topSignals, the earlier has strictly greater
\* rvol, or the gap is below 0.5 and the earlier's setup tier is at least
\* the later's.
C3_AdjacentOrder ==
    rankPc = "done" =>
        \A i \in 1..(Len(topSignals) - 1) :
            LET e == topSignals[i]
                l == topSignals[i + 1]
            IN  \/ e.rvol > l.rvol
                \/ /\ Abs(e.rvol - l.rvol) < RvolGap
                   /\ Boost(e) >= Boost(l)

\* C3 witness: the tier put a lower rvol first, and elsewhere rvol decided.
C3_Witness ==
    /\ rankPc = "done"
    /\ Len(topSignals) = 3
    /\ topSignals[1].rvol < topSignals[2].rvol
    /\ Boost(topSignals[1]) > Boost(topSignals[2])
    /\ topSignals[2].rvol - topSignals[3].rvol >= RvolGap

\* C4: volumeWithoutPrice is exactly the input records with rvol >= minRVOL
\* and |priceChange| < priceChangeThreshold, each once, whatever topN is.
C4_VolumeWithoutPriceExact ==
    rankPc = "done" =>
        /\ Range(volumeWithoutPrice) =
             {s \in Qualifying : Abs(s.priceChange) < rvolConfig.priceChangeThreshold}
        /\ Cardinality(Range(volumeWithoutPrice)) = Len(volumeWithoutPrice)

\* C4 witness: more quiet records than topN, one of them also a top signal
\* and one of them cut from the top signals, while a louder record was
\* filtered out of volumeWithoutPrice.
C4_Witness ==
    /\ rankPc = "done"
    /\ Len(volumeWithoutPrice) > rvolConfig.topN
    /\ Len(volumeWithoutPrice) < Len(highRVOL)
    /\ \E s \in Range(volumeWithoutPrice) : s \in Range(topSignals)
    /\ \E s \in Range(volumeWithoutPrice) : s \notin Range(topSignals)

(***************************************************************************)
(* Properties of fetchAllStocks (under SpecFetch)                          *)
(***************************************************************************)
\* The tasks that have started and not finished.
Running == {i \in Tasks : taskPc[i] \in {"yahoo", "twelve"}}

\* The positions of the records of symbol t in the result.
RecordsOf(t) == {k \in 1..Len(results) : results[k].ticker = t}
FailedAt(t) == {k \in 1..Len(failedTickers) : failedTickers[k] = t}

\* Every adapter was called for task i and none returned data.
Exhausted(i) ==
    /\ \E k \in 1..Len(calls[i]) : calls[i][k].adapter = "Yahoo Chart"
    /\ \E k \in 1..Len(calls[i]) : calls[i][k].adapter = "Twelve Data"
    /\ \A k \in 1..Len(calls[i]) : calls[i][k].ended # "ok"

Attempts(i, a) == Cardinality({k \in 1..Len(calls[i]) : calls[i][k].adapter = a})

\* C7: a transient failure of an adapter call is retried, up to maxRetries
\* attempts for the symbol and adapter, before the task moves on; a no-data
\* outcome is not retried.
C7_TransientRetried ==
    \A i \in Tasks : \A k \in 1..Len(calls[i]) :
        LET a == calls[i][k].adapter
            movedOn == k < Len(calls[i]) \/ taskPc[i] = "done"
        IN  /\ (calls[i][k].ended = "nodata" /\ movedOn) =>
                  (k = Len(calls[i]) \/ calls[i][k + 1].adapter # a)
            /\ (calls[i][k].ended = "transient" /\ movedOn) =>
                  \/ (k < Len(calls[i]) /\ calls[i][k + 1].adapter = a)
                  \/ Attempts(i, a) = MaxRetries

\* C8: at most 3 tasks are running at any moment, and a queued task starts
\* only when fewer than 3 are running or when a running one finishes in the
\* same step.
C8_BoundedConcurrency ==
    [][ /\ Cardinality(Running') <= 3
        /\ \A i \in Tasks :
             (taskPc[i] = "queued" /\ taskPc'[i] # "queued") =>
                 \/ Cardinality(Running) < 3
                 \/ \E j \in Running : taskPc'[j] \in {"done", "rejected"} ]_vars

\* C8 witness: three tasks run, among them the fourth, which waited in the
\* queue until one of the first three had finished.
C8_Witness ==
    /\ Cardinality(Running) = 3
    /\ Len(tickers) > 3
    /\ 4 \in Running
    /\ \E i \in 1..3 : taskPc[i] = "done"

\* The record the adapters produced for task i, if any.
FirstSuccess(i) == IF yahooOut[i] # Null THEN yahooOut[i] ELSE twelveOut[i]

\* C9: fetchAllStocks never rejects, whatever the providers answer, and
\* once it has resolved every record an adapter produced for a symbol is in
\* the result unchanged, whatever happened to the other symbols.
C9_NeverRejects ==
    /\ fetchPc # "rejected"
    /\ \A i \in Tasks : taskPc[i] # "rejected"
    /\ fetchPc = "resolved" =>
         \A i \in Tasks :
             FirstSuccess(i) # Null =>
                 \E k \in 1..Len(results) : results[k] = FirstSuccess(i)

\* C9 witness: the call resolved although one symbol met a transient failure
\* and no data from either provider, and another symbol's record is in the
\* result.
C9_Witness ==
    /\ fetchPc = "resolved"
    /\ \E i \in Tasks :
         /\ Exhausted(i)
         /\ \E k \in 1..Len(calls[i]) : calls[i][k].ended = "transient"
         /\ \E j \in Tasks \ {i} : RecordsOf(tickers[j]) # {}

\* A record whose rvol is finite and equal to currentVolume / avgVolume,
\* with avgVolume > 0.
SoundRvol(rec) ==
    /\ IsFinite(rec.avgVolume) /\ rec.avgVolume[1] > 0
    /\ IsFinite(rec.rvol)
    /\ NumEq(rec.rvol, Div(rec.currentVolume, rec.avgVolume))

\* C10: every record an adapter returns, and so every record of the result,
\* has a finite rvol equal to currentVolume / avgVolume with avgVolume > 0.
C10_RvolFiniteRatio ==
    /\ \A i \in Tasks :
         /\ yahooOut[i] # Null => SoundRvol(yahooOut[i])
         /\ twelveOut[i] # Null => SoundRvol(twelveOut[i])
    /\ \A k \in 1..Len(results) : SoundRvol(results[k])

(***************************************************************************)
(* Properties of the setup classification (under SpecSetup)                *)
(***************************************************************************)
\* The marks formatSetupIndicator gave the dimension `label` (none when the
\* dimension has no line).
MarksOf(label) ==
    {setupLines[i].mark : i \in {k \in 1..Len(setupLines) : setupLines[k].label = label}}

LinesOf(label) == {k \in 1..Len(setupLines) : setupLines[k].label = label}

AllMarks == MarksOf("SMA21") \cup MarksOf("High") \cup MarksOf("Base")

\* C11: whatever the six flags are (true, false or absent), getSetupStatus
\* returns one of full, close, none; it returns full if and only if
\* nearSMA21, nearAth and inConsolidationWindow are all true, also when the
\* record satisfies the close rule as well.
C11_SetupStatusTotal ==
    setupPc \in {"classified", "reported"} =>
        /\ setupStatus \in {"full", "close", "none"}
        /\ setupStatus = "full" <=>
               /\ setupStock.nearSMA21 = "true"
               /\ setupStock.nearAth = "true"
               /\ setupStock.inConsolidationWindow = "true"

\* C11 witness: a record with all six flags true, which meets the close
\* rule too, was classified full.
C11_Witness ==
    /\ setupPc = "classified"
    /\ \A n \in FlagNames : setupStock[n] = "true"
    /\ setupStatus = "full"

\* C12: a record whose peak and base dimensions have values is classified
\* close exactly when it is not full and no dimension is far, a trend
\* dimension without a 21-period average counting as neither met nor far;
\* a far dimension makes the record none.
C12_CloseIffNoFar ==
    (/\ setupPc = "reported"
     /\ setupStock.pctFromAth # Absent
     /\ setupStock.monthsInConsolidation # Absent) =>
        /\ setupStatus = "close" <=> (setupStatus # "full" /\ "far" \notin AllMarks)
        /\ "far" \in AllMarks => setupStatus = "none"

\* C13: formatSetupIndicator writes one line for each dimension that has a
\* value and none for the others; the trend line is met iff the distance
\* from SMA21 is <= smaTouch and close iff smaTouch < distance <= smaClose;
\* the peak line is met iff |pctFromAth| <= athThreshold and close iff
\* athThreshold < |pctFromAth| <= athCloseThreshold; the base line is met
\* iff baseMin <= months <= baseMax and close iff baseCloseMin <= months <
\* baseMin; every other line is far.
C13_IndicatorMarks ==
    setupPc = "reported" =>
        LET s == setupStock
            Expected(met, close) ==
                {IF met THEN "met" ELSE IF close THEN "close" ELSE "far"}
        IN  /\ IF s.sma21 # Absent /\ s.sma21[1] > 0
               THEN LET dist100 == Abs(s.lastPrice - s.sma21[1]) * 100
                        touch   == sma21TouchThresholdPct * s.sma21[1]
                        near    == sma21CloseThresholdPct * s.sma21[1]
                    IN  /\ Cardinality(LinesOf("SMA21")) = 1
                        /\ MarksOf("SMA21") =
                             Expected(dist100 <= touch, touch < dist100 /\ dist100 <= near)
               ELSE LinesOf("SMA21") = {}
            /\ IF s.pctFromAth # Absent
               THEN LET a == Abs(s.pctFromAth[1])
                    IN  /\ Cardinality(LinesOf("High")) = 1
                        /\ MarksOf("High") =
                             Expected(a <= athThresholdPct,
                                      athThresholdPct < a /\ a <= athCloseThresholdPct)
               ELSE LinesOf("High") = {}
            /\ IF s.monthsInConsolidation # Absent
               THEN LET days == s.monthsInConsolidation[1]
                        min  == consolidationMinMonths * TRADING_DAYS_PER_MONTH
                        max  == consolidationMaxMonths * TRADING_DAYS_PER_MONTH
                        cmin == consolidationCloseMinMonths * TRADING_DAYS_PER_MONTH
                    IN  /\ Cardinality(LinesOf("Base")) = 1
                        /\ MarksOf("Base") =
                             Expected(min <= days /\ days <= max, cmin <= days /\ days < min)
               ELSE LinesOf("Base") = {}

\* C13 witness: a record on the thresholds: trend exactly at smaTouch (met),
\* peak exactly at athCloseThreshold (close), base one day over baseMax
\* (far).
C13_Witness ==
    /\ setupPc = "reported"
    /\ setupStock.sma21 = Some(100) /\ setupStock.lastPrice = 103
    /\ setupStock.pctFromAth = Some(-25)
    /\ setupStock.monthsInConsolidation = Some(757)
    /\ MarksOf("SMA21") = {"met"}
    /\ MarksOf("High") = {"close"}
    /\ MarksOf("Base") = {"far"}

(***************************************************************************)
(* Properties of the watchlist cache (under SpecConfig)                    *)
(***************************************************************************)
\* A fetchAndCacheWatchlist call among the first n completed calls succeeded.
LoadedWithin(log, n) ==
    \E k \in 1..n : log[k].call = "fetchAndCacheWatchlist" /\ log[k].completion = "return"

\* C19: whenever a call completes: loadWatchlist and getSectorForTicker
\* throw 'Watchlist not loaded' exactly when no earlier
\* fetchAndCacheWatchlist call has completed successfully, and a
\* fetchAndCacheWatchlist call that fails leaves tickerCache as it was.
C19_WatchlistCacheGuard ==
    [][ Len(cfgLog') = Len(cfgLog) + 1 =>
          LET e == cfgLog'[Len(cfgLog')] IN
          /\ e.call \in {"loadWatchlist", "getSectorForTicker"} =>
                ((e.completion = "throw" /\ e.value = NotLoaded)
                    <=> ~LoadedWithin(cfgLog, Len(cfgLog)))
          /\ (e.call = "fetchAndCacheWatchlist" /\ e.completion = "throw") =>
                tickerCache' = tickerCache ]_vars

\* C19 witness: loadWatchlist threw, then a fetchAndCacheWatchlist call
\* succeeded, a later one failed, and loadWatchlist returned the symbols
\* cached by the first.
C19_Witness ==
    /\ Len(cfgLog) = 4
    /\ cfgLog[1].call = "loadWatchlist" /\ cfgLog[1].completion = "throw"
    /\ cfgLog[2].call = "fetchAndCacheWatchlist" /\ cfgLog[2].completion = "return"
    /\ cfgLog[3].call = "fetchAndCacheWatchlist" /\ cfgLog[3].completion = "throw"
    /\ cfgLog[4].call = "loadWatchlist" /\ cfgLog[4].completion = "return"
    /\ cfgLog[4].value = <<"AAPL", "META">>

(***************************************************************************)
(* Properties of main (under SpecMain)                                     *)
(***************************************************************************)
\* C14: in a run with a configuration error (a required variable missing,
\* or a negative topN), fetchAllStocks is never called.
C14_ConfigErrorStopsRun ==
    (MissingConfig(mainEnv, googleSheetId) # {} \/ mainEnv.topN < 0) =>
        mainFetchArgs = <<>>

(***************************************************************************)
(* Properties of the indicator functions (under SpecInd)                   *)
(***************************************************************************)
\* prices[lo] + ... + prices[hi]
RECURSIVE SumRange(_, _, _)
SumRange(prices, lo, hi) ==
    IF lo > hi THEN 0 ELSE prices[hi] + SumRange(prices, lo, hi - 1)

\* 0 <= q <= 100
InZeroToHundred(q) == q[2] > 0 /\ q[1] >= 0 /\ q[1] <= 100 * q[2]

\* Every delta prices[i + 1] - prices[i], lo <= i <= hi, is non-negative
DeltasNonNegative(prices, lo, hi) ==
    \A i \in lo..hi : prices[i + 1] >= prices[i]

C16_SmaMeanOfLastN ==
    (indResult.kind = "calculateSMA" /\ indPeriods >= 1) =>
        LET n == indPeriods
            len == Len(indPrices)
            v == indResult.value
        IN /\ indResult.completion = "return"
           /\ IF len < n THEN v = Absent
              ELSE /\ v # Absent
                   /\ IsFinite(v[1])
                   /\ v[1][1] * n
                        = v[1][2] * SumRange(indPrices, len - n + 1, len)
                   /\ n = 1 => NumEq(v[1], Num(indPrices[len]))

\* A window shorter than the series, whose first and last elements differ
C16_Witness ==
    /\ indResult.kind = "calculateSMA"
    /\ indPeriods = 2
    /\ Len(indPrices) = 3
    /\ indPrices[1] # indPrices[3]
    /\ indResult.value # Absent

\* The last min(length, 252) entries of the series
Window(closes) ==
    LET wl == Min(Len(closes), 252)
    IN [i \in 1..wl |-> closes[Len(closes) - wl + i]]

C18_SameTierTopNByRvol ==
    (rankPc = "done" /\ \A a \in Qualifying : \A b \in Qualifying :
                            Boost(a) = Boost(b)) =>
        /\ Len(topSignals) = Min(rvolConfig.topN, Cardinality(Qualifying))
        /\ Range(topSignals) \subseteq Qualifying
        /\ Cardinality(Range(topSignals)) = Len(topSignals)
        /\ \A i \in 1..Len(topSignals) : \A j \in 1..Len(topSignals) :
              i < j => topSignals[i].rvol >= topSignals[j].rvol
        /\ \A s \in Qualifying \ Range(topSignals) :
              \A t \in Range(topSignals) : t.rvol >= s.rvol

\* C18 witness: three qualifying records of one tier, given in an order
\* that is not by rvol, of which the lowest is cut
C18_Witness ==
    /\ rankPc = "done"
    /\ Cardinality(Qualifying) = 3
    /\ \A a \in Qualifying : \A b \in Qualifying : Boost(a) = Boost(b)
    /\ stocks[1].rvol < stocks[2].rvol
    /\ stocks[3].rvol < stocks[2].rvol
    /\ rvolConfig.topN = 2
    /\ Len(topSignals) = 2
    /\ topSignals[1].rvol > topSignals[2].rvol

\* C20: a record is listed under Silent Activity only if it is also one of
\* the top signals (rvol >= minRVOL and among the top topN of the ranking)
\* and has |priceChange| < priceChangeThreshold; at most 5 are listed.
C20_SilentOnlyTopSignals ==
    rankPc = "reported" =>
        /\ Len(silentItems) <= 5
        /\ \A s \in Range(silentItems) :
              /\ s.rvol >= rvolConfig.minRVOL
              /\ s \in Range(topSignals)
              /\ Abs(s.priceChange) < rvolConfig.priceChangeThreshold

(***************************************************************************)
(* Properties of withRetry (under SpecRetry)                               *)
(***************************************************************************)
\* The positions of the trace that hold an event of the given kind
EventsOf(ev) == {i \in 1..Len(retryTrace) : retryTrace[i].ev = ev}

\* C23: for maxRetries >= 1, withRetry calls fn at most maxRetries times,
\* makes no call after the first call that resolves and returns that call's
\* value, and rejects with the error of the last call (made an Error when
\* it is not one) if all maxRetries calls reject.
C23_RetryCallsBounded ==
    retryArgs.maxRetries >= 1 =>
        /\ Cardinality(EventsOf("call")) <= retryArgs.maxRetries
        /\ \A i \in EventsOf("resolve") :
              /\ i = Len(retryTrace)
              /\ retryPc = "resolved"
              /\ retryOutcome = Resolved(retryTrace[i].n)
        /\ retryPc = "resolved" => EventsOf("resolve") # {}
        /\ retryPc = "rejected" =>
              /\ Cardinality(EventsOf("reject")) = retryArgs.maxRetries
              /\ retryTrace[Len(retryTrace)].ev = "reject"
              /\ retryTrace[Len(retryTrace)].n = retryArgs.maxRetries
              /\ LET e == retryTrace[Len(retryTrace)].error IN
                 IF e.kind = "Error" THEN retryOutcome = e
                 ELSE /\ retryOutcome.kind = "Error"
                      /\ retryOutcome.wrapped
                      /\ retryOutcome.attempt = e.attempt

\* C23 witness: three calls rejected, the last with a value that is not an
\* Error, and withRetry rejected
C23_Witness ==
    /\ retryArgs.maxRetries = 3
    /\ retryPc = "rejected"
    /\ Cardinality(EventsOf("call")) = 3
    /\ retryOutcome.wrapped

\* C24: the wait between failed attempt k and attempt k + 1 is
\* baseDelayMs * 2^(k-1), each wait the double of the one before, and no
\* wait follows the final failed attempt.
C24_BackoffDoubles ==
    /\ \A i \in EventsOf("sleep") :
          /\ i > 1
          /\ retryTrace[i - 1].ev = "reject"
          /\ retryTrace[i - 1].n < retryArgs.maxRetries
          /\ retryTrace[i].n = retryArgs.baseDelayMs * (2 ^ (retryTrace[i - 1].n - 1))
          /\ \A j \in EventsOf("sleep") :
                (j < i /\ \A m \in EventsOf("sleep") : ~(j < m /\ m < i))
                    => retryTrace[i].n = 2 * retryTrace[j].n
    /\ \A i \in EventsOf("reject") :
          IF retryTrace[i].n = retryArgs.maxRetries
          THEN i = Len(retryTrace)
          ELSE i < Len(retryTrace) /\ retryTrace[i + 1].ev = "sleep"
    /\ \A i \in EventsOf("call") :
          i > 1 => retryTrace[i - 1].ev = "sleep"

\* C24 witness: three waits were made and the fourth attempt failed too
C24_Witness ==
    /\ retryPc = "rejected"
    /\ Cardinality(EventsOf("sleep")) = 3
    /\ retryArgs.maxRetries = 4

\* C30: called with maxRetries <= 0, withRetry never calls fn and rejects
\* with undefined, not with an Error.
C30_NoAttemptRejectsUndefined ==
    retryArgs.maxRetries <= 0 =>
        /\ retryTrace = <<>>
        /\ retryPc \in {"loop", "rejected"}
        /\ retryPc = "rejected" => retryOutcome = Undefined

\* C30 witness: withRetry called with maxRetries = 0 has rejected
C30_Witness ==
    /\ retryArgs.maxRetries = 0
    /\ retryPc = "rejected"

(***************************************************************************)
(* More properties of the indicator functions (under SpecInd)              *)
(***************************************************************************)
\* The same number, NaN counting as equal to NaN
SameNumber(a, b) == (IsNaN(a) /\ IsNaN(b)) \/ NumEq(a, b)

\* Wilder's average of the gains (or of the loss magnitudes) of a series:
\* the simple mean of the first `periods` deltas, then
\* avg = (avg * (periods - 1) + current) / periods for each later delta.
WilderReference(prices, periods, side) ==
    LET last == Len(prices) - 1
        cur(i) == LET dlt == prices[i + 1] - prices[i] IN
                  IF side = "gain" THEN (IF dlt > 0 THEN dlt ELSE 0)
                  ELSE (IF dlt < 0 THEN 0 - dlt ELSE 0)
        first[j \in 0..periods] == IF j = 0 THEN 0 ELSE first[j - 1] + cur(j)
        avg[i \in periods..last] ==
            IF i = periods THEN <<first[periods], periods>>
            ELSE <<avg[i - 1][1] * (periods - 1) + cur(i) * avg[i - 1][2],
                   avg[i - 1][2] * periods>>
    IN avg[last]

\* 100 - 100 / (1 + avgGain / avgLoss), or 100 when avgLoss is zero
RsiReference(prices, periods) ==
    LET g == WilderReference(prices, periods, "gain")
        l == WilderReference(prices, periods, "loss")
        rs == <<g[1] * l[2], g[2] * l[1]>>
        onePlus == <<rs[2] + rs[1], rs[2]>>
        q == <<100 * onePlus[2], onePlus[1]>>
    IN IF l[2] # 0 /\ l[1] = 0 THEN <<100, 1>>
       ELSE <<100 * q[2] - q[1], q[2]>>

\* C27: calculateRSI(prices, periods) equals the Wilder reference: initial
\* averages are the simple means over the first `periods` deltas, every
\* later delta updates both by avg = (avg * (periods - 1) + current) /
\* periods, and the result is 100 - 100 / (1 + avgGain / avgLoss), or 100
\* when avgLoss is zero.
C27_RsiEqualsWilderReference ==
    (indResult.kind = "calculateRSI" /\ indResult.value # Absent) =>
        SameNumber(indResult.value[1], RsiReference(indPrices, indPeriods))

\* C27 witness: a series with deltas after the first `periods` ones, with
\* gains and losses, and a result strictly between 0 and 100
C27_Witness ==
    /\ indResult.kind = "calculateRSI"
    /\ indPeriods = 2
    /\ Len(indPrices) = 4
    /\ indResult.value # Absent
    /\ indResult.value[1][1] > 0
    /\ ~NumEq(indResult.value[1], Num(100))
    /\ indPrices[4] < indPrices[3]

MarkOf(lines, label) ==
    IF \E i \in 1..Len(lines) : lines[i].label = label
    THEN lines[CHOOSE i \in 1..Len(lines) : lines[i].label = label].mark
    ELSE "none"

\* C28: for every stock, the met/close/far mark formatStockForLlm writes
\* for each of SMA21, High and Base is the mark formatSetupIndicator writes
\* for that stock in the Telegram report.
C28_LlmMarksMatchReport ==
    setupPc = "prompted" =>
        \A label \in {"SMA21", "High", "Base"} :
            MarkOf(llmLines, label) = MarkOf(setupLines, label)

\* C26: calculateRVOL and formatDailyReport leave the arrays passed to them
\* unchanged: stocks through both calls, topSignals and volumeWithoutPrice
\* through formatDailyReport, each with the same records in the same order.
C26_InputsUnchanged ==
    [][/\ stocks' = stocks
       /\ (rankPc = "done" /\ rankPc' = "reported") =>
              (topSignals' = topSignals /\ volumeWithoutPrice' = volumeWithoutPrice)]_vars

\* C25: for any finite symbol list, if every provider call eventually
\* returns or fails, every queued task is eventually started and finished
\* and fetchAllStocks eventually resolves: no task waits forever behind the
\* concurrency limit.
C25_EveryTaskFinishes ==
    (fetchPc = "running") ~>
        (/\ fetchPc = "resolved"
         /\ queue = <<>>
         /\ \A i \in Tasks : taskPc[i] = "done" /\ Len(calls[i]) >= 1)

\* C25 witness: a call with more symbols than the limit, so that one task
\* waited in the queue, has resolved with every task finished
C25_Witness ==
    /\ Len(tickers) > ConcurrencyLimit
    /\ fetchPc = "resolved"
    /\ \A i \in Tasks : taskPc[i] = "done" /\ Len(calls[i]) >= 1

(***************************************************************************)
(* Properties of sendDailyReport (under SpecSend)                          *)
(***************************************************************************)
\* C21: every message sendDailyReport passes to sendTelegramMessage is at
\* most 4096 characters long, for a report of any length.
C21_MessagesWithinLimit ==
    \A k \in 1..Len(sentMessages) : sentMessages[k].len <= TELEGRAM_MAX_LENGTH

\* The LLM gave no summary: it is disabled, has no key, or its answer
\* failed or was empty (or it was not asked at all).
NoSummary == sendPc \in {"chunks", "done", "rejected"} /\ ~NonEmpty(sendSummary)

\* The messages passed so far are the chunks 1..n of the report, in order,
\* each under its own header.
ChunksSentUpTo(n) ==
    /\ Len(sentMessages) = n
    /\ \A k \in 1..n : sentMessages[k] = PartMessage(k)

====
